---- MODULE Spec2Model ----
(***************************************************************************)
(* Treatment recommendation and dosage/cost engine of the CropGuard        *)
(* backend (src/backend/app/services) together with the simplified plan    *)
(* calculator of src/backend/core/pesticide.py.                            *)
(*                                                                         *)
(* Numbers.  The services compute with Python floats and return formatted  *)
(* strings.  Quantities are modelled as exact fixed-point integers (the    *)
(* unit of every quantity is named next to it) and a formatted field       *)
(* "%.2f" as the integer number of hundredths the formatting rounds to.    *)
(* Binary floating-point error (at most one unit in the last printed       *)
(* digit, on exact decimal ties only) is not modelled.                     *)
(*                                                                         *)
(* Text.  A Python str is a TLA+ string; its characters are looked up in   *)
(* CharTable so that lower(), `in` and == are computed on characters.      *)
(***************************************************************************)
EXTENDS Integers, Sequences, FiniteSets, TLC

VARIABLES
    pesticide_database,    \* PesticideRecommendationService.pesticide_database
    pesticide_prices,      \* CostCalculationService.pesticide_prices
    regional_multipliers,  \* CostCalculationService.regional_multipliers
    call,                  \* the call that returned last: operation, arguments, outcome
    scans,                 \* src/main.py: the rows of table scans in scan_history.db
    now,                   \* src/backend/main.py: datetime.now(), in whole seconds
    uploads,               \* src/backend/main.py: the files under data/uploads
    crop_scans,            \* src/backend/main.py: the rows of table crop_scans
    requests               \* src/backend/main.py: the analyze-image requests in progress

vars == <<pesticide_database, pesticide_prices, regional_multipliers, call,
          scans, now, uploads, crop_scans, requests>>

(***************************************************************************)
(* Bounds of the explored inputs.                                          *)
(***************************************************************************)
\* analyze-image requests the backend receives
MaxRequests == 2

\* the clock of the backend is read at ticks 0 .. MaxClock
MaxClock == 2

\* farm sizes range over -1/FarmScale .. MaxFarmUnits/FarmScale hectares
MaxFarmUnits == 4
\* substance lists of the explored calls have at most MaxListLen entries
MaxListLen == 2

\* the longest list handed to compare_pesticide_costs
MaxCompareLen == 3

(***************************************************************************)
(* Fixed-point units.                                                      *)
(***************************************************************************)
\* dosage_per_hectare is held in quarters of a kg (every catalogued rate is a multiple of 0.25)
DoseScale == 4
\* severity multipliers are held in tenths
SevScale == 10
\* regional price multipliers are held in hundredths
RegionScale == 100
\* farm_size is held in halves of a hectare
FarmScale == 2

(***************************************************************************)
(* Text: characters, str.lower(), the `in` substring test.                 *)
(***************************************************************************)
UpperToLower ==
    ( "A" :> "a"
    @@ "B" :> "b"
    @@ "C" :> "c"
    @@ "D" :> "d"
    @@ "E" :> "e"
    @@ "F" :> "f"
    @@ "G" :> "g"
    @@ "H" :> "h"
    @@ "I" :> "i"
    @@ "J" :> "j"
    @@ "K" :> "k"
    @@ "L" :> "l"
    @@ "M" :> "m"
    @@ "N" :> "n"
    @@ "O" :> "o"
    @@ "P" :> "p"
    @@ "Q" :> "q"
    @@ "R" :> "r"
    @@ "S" :> "s"
    @@ "T" :> "t"
    @@ "U" :> "u"
    @@ "V" :> "v"
    @@ "W" :> "w"
    @@ "X" :> "x"
    @@ "Y" :> "y"
    @@ "Z" :> "z" )
CharTable ==
    ( "Anthracnose" :> <<"A", "n", "t", "h", "r", "a", "c", "n", "o", "s", "e">>
    @@ "Bacterial_spot" :> <<"B", "a", "c", "t", "e", "r", "i", "a", "l", "_", "s", "p", "o", "t">>
    @@ "Bacterial_wilt" :> <<"B", "a", "c", "t", "e", "r", "i", "a", "l", "_", "w", "i", "l", "t">>
    @@ "Bleaching Powder" :> <<"B", "l", "e", "a", "c", "h", "i", "n", "g", " ", "P", "o", "w", "d", "e", "r">>
    @@ "Carbendazim" :> <<"C", "a", "r", "b", "e", "n", "d", "a", "z", "i", "m">>
    @@ "Cercospora_leaf_spot" :> <<"C", "e", "r", "c", "o", "s", "p", "o", "r", "a", "_", "l", "e", "a", "f", "_", "s", "p", "o", "t">>
    @@ "Chlorothalonil" :> <<"C", "h", "l", "o", "r", "o", "t", "h", "a", "l", "o", "n", "i", "l">>
    @@ "Copper Hydroxide" :> <<"C", "o", "p", "p", "e", "r", " ", "H", "y", "d", "r", "o", "x", "i", "d", "e">>
    @@ "Copper Sulfate" :> <<"C", "o", "p", "p", "e", "r", " ", "S", "u", "l", "f", "a", "t", "e">>
    @@ "Cymoxanil" :> <<"C", "y", "m", "o", "x", "a", "n", "i", "l">>
    @@ "Early_blight" :> <<"E", "a", "r", "l", "y", "_", "b", "l", "i", "g", "h", "t">>
    @@ "Fosetyl-Al" :> <<"F", "o", "s", "e", "t", "y", "l", "-", "A", "l">>
    @@ "Healthy" :> <<"H", "e", "a", "l", "t", "h", "y">>
    @@ "Late_blight" :> <<"L", "a", "t", "e", "_", "b", "l", "i", "g", "h", "t">>
    @@ "Leaf_Mold" :> <<"L", "e", "a", "f", "_", "M", "o", "l", "d">>
    @@ "Mancozeb" :> <<"M", "a", "n", "c", "o", "z", "e", "b">>
    @@ "Metalaxyl" :> <<"M", "e", "t", "a", "l", "a", "x", "y", "l">>
    @@ "Metalaxyl + Mancozeb" :> <<"M", "e", "t", "a", "l", "a", "x", "y", "l", " ", "+", " ", "M", "a", "n", "c", "o", "z", "e", "b">>
    @@ "Powdery_mildew" :> <<"P", "o", "w", "d", "e", "r", "y", "_", "m", "i", "l", "d", "e", "w">>
    @@ "Propiconazole" :> <<"P", "r", "o", "p", "i", "c", "o", "n", "a", "z", "o", "l", "e">>
    @@ "Streptomycin" :> <<"S", "t", "r", "e", "p", "t", "o", "m", "y", "c", "i", "n">>
    @@ "Sulfur" :> <<"S", "u", "l", "f", "u", "r">>
    @@ "Triadimefon" :> <<"T", "r", "i", "a", "d", "i", "m", "e", "f", "o", "n">>
    @@ "brinjal" :> <<"b", "r", "i", "n", "j", "a", "l">>
    @@ "capsicum" :> <<"c", "a", "p", "s", "i", "c", "u", "m">>
    @@ "tomato" :> <<"t", "o", "m", "a", "t", "o">>
    @@ "healthy" :> <<"h", "e", "a", "l", "t", "h", "y">>
    @@ "mild" :> <<"m", "i", "l", "d">>
    @@ "moderate" :> <<"m", "o", "d", "e", "r", "a", "t", "e">>
    @@ "severe" :> <<"s", "e", "v", "e", "r", "e">>
    @@ "Severe" :> <<"S", "e", "v", "e", "r", "e">>
    @@ "unknown" :> <<"u", "n", "k", "n", "o", "w", "n">>
    @@ "low" :> <<"l", "o", "w">>
    @@ "medium" :> <<"m", "e", "d", "i", "u", "m">>
    @@ "high" :> <<"h", "i", "g", "h">>
    @@ "punjab" :> <<"p", "u", "n", "j", "a", "b">>
    @@ "haryana" :> <<"h", "a", "r", "y", "a", "n", "a">>
    @@ "delhi" :> <<"d", "e", "l", "h", "i">>
    @@ "rajasthan" :> <<"r", "a", "j", "a", "s", "t", "h", "a", "n">>
    @@ "up" :> <<"u", "p">>
    @@ "uttarakhand" :> <<"u", "t", "t", "a", "r", "a", "k", "h", "a", "n", "d">>
    @@ "karnataka" :> <<"k", "a", "r", "n", "a", "t", "a", "k", "a">>
    @@ "tamil nadu" :> <<"t", "a", "m", "i", "l", " ", "n", "a", "d", "u">>
    @@ "kerala" :> <<"k", "e", "r", "a", "l", "a">>
    @@ "andhra" :> <<"a", "n", "d", "h", "r", "a">>
    @@ "telangana" :> <<"t", "e", "l", "a", "n", "g", "a", "n", "a">>
    @@ "west bengal" :> <<"w", "e", "s", "t", " ", "b", "e", "n", "g", "a", "l">>
    @@ "odisha" :> <<"o", "d", "i", "s", "h", "a">>
    @@ "bihar" :> <<"b", "i", "h", "a", "r">>
    @@ "jharkhand" :> <<"j", "h", "a", "r", "k", "h", "a", "n", "d">>
    @@ "assam" :> <<"a", "s", "s", "a", "m">>
    @@ "maharashtra" :> <<"m", "a", "h", "a", "r", "a", "s", "h", "t", "r", "a">>
    @@ "gujarat" :> <<"g", "u", "j", "a", "r", "a", "t">>
    @@ "goa" :> <<"g", "o", "a">>
    @@ "" :> <<>>
    @@ "Punjab" :> <<"P", "u", "n", "j", "a", "b">>
    @@ "Punjab, India" :> <<"P", "u", "n", "j", "a", "b", ",", " ", "I", "n", "d", "i", "a">>
    @@ "Karnataka, India" :> <<"K", "a", "r", "n", "a", "t", "a", "k", "a", ",", " ", "I", "n", "d", "i", "a">>
    @@ "Unknown Location" :> <<"U", "n", "k", "n", "o", "w", "n", " ", "L", "o", "c", "a", "t", "i", "o", "n">>
    @@ "Some Unlisted City" :> <<"S", "o", "m", "e", " ", "U", "n", "l", "i", "s", "t", "e", "d", " ", "C", "i", "t", "y">>
    @@ "Rajasthan" :> <<"R", "a", "j", "a", "s", "t", "h", "a", "n">>
    @@ "West Bengal" :> <<"W", "e", "s", "t", " ", "B", "e", "n", "g", "a", "l">>
    @@ "Goa" :> <<"G", "o", "a">>
    @@ "Udupi, Karnataka" :> <<"U", "d", "u", "p", "i", ",", " ", "K", "a", "r", "n", "a", "t", "a", "k", "a">>
    @@ "Goa, Kerala" :> <<"G", "o", "a", ",", " ", "K", "e", "r", "a", "l", "a">>
    @@ "KERALA" :> <<"K", "E", "R", "A", "L", "A">>
    @@ "rain" :> <<"r", "a", "i", "n">>
    @@ "wet" :> <<"w", "e", "t">>
    @@ "humid" :> <<"h", "u", "m", "i", "d">>
    @@ "hot" :> <<"h", "o", "t">>
    @@ "dry" :> <<"d", "r", "y">>
    @@ "sunny" :> <<"s", "u", "n", "n", "y">>
    @@ "wind" :> <<"w", "i", "n", "d">>
    @@ "heat" :> <<"h", "e", "a", "t">>
    @@ ">35" :> <<">", "3", "5">>
    @@ "rainy" :> <<"r", "a", "i", "n", "y">>
    @@ "windy" :> <<"w", "i", "n", "d", "y">>
    @@ "Rain and wind" :> <<"R", "a", "i", "n", " ", "a", "n", "d", " ", "w", "i", "n", "d">>
    @@ "hot and dry" :> <<"h", "o", "t", " ", "a", "n", "d", " ", "d", "r", "y">>
    @@ "cloudy" :> <<"c", "l", "o", "u", "d", "y">>
    @@ "Humid, windy" :> <<"H", "u", "m", "i", "d", ",", " ", "w", "i", "n", "d", "y">>
    @@ "copper" :> <<"c", "o", "p", "p", "e", "r">>
    @@ "blight" :> <<"b", "l", "i", "g", "h", "t">>
    @@ "spot" :> <<"s", "p", "o", "t">>
    @@ "Unknown Fungicide" :> <<"U", "n", "k", "n", "o", "w", "n", " ", "F", "u", "n", "g", "i", "c", "i", "d", "e">>
    @@ "Unknown_disease" :> <<"U", "n", "k", "n", "o", "w", "n", "_", "d", "i", "s", "e", "a", "s", "e">>
    @@ "wheat" :> <<"w", "h", "e", "a", "t">>
    @@ "Tomato" :> <<"T", "o", "m", "a", "t", "o">>
    @@ "Early blight" :> <<"E", "a", "r", "l", "y", " ", "b", "l", "i", "g", "h", "t">>
    @@ "Late blight" :> <<"L", "a", "t", "e", " ", "b", "l", "i", "g", "h", "t">>
    @@ "Bacterial spot" :> <<"B", "a", "c", "t", "e", "r", "i", "a", "l", " ", "s", "p", "o", "t">>
    @@ "Septoria leaf spot" :> <<"S", "e", "p", "t", "o", "r", "i", "a", " ", "l", "e", "a", "f", " ", "s", "p", "o", "t">>
    @@ "Leaf mold" :> <<"L", "e", "a", "f", " ", "m", "o", "l", "d">>
    @@ "Phomopsis blight" :> <<"P", "h", "o", "m", "o", "p", "s", "i", "s", " ", "b", "l", "i", "g", "h", "t">>
    @@ "Bacterial wilt" :> <<"B", "a", "c", "t", "e", "r", "i", "a", "l", " ", "w", "i", "l", "t">>
    @@ "Little leaf" :> <<"L", "i", "t", "t", "l", "e", " ", "l", "e", "a", "f">>
    @@ "Shoot and fruit borer" :> <<"S", "h", "o", "o", "t", " ", "a", "n", "d", " ", "f", "r", "u", "i", "t", " ", "b", "o", "r", "e", "r">>
    @@ "Phytophthora blight" :> <<"P", "h", "y", "t", "o", "p", "h", "t", "h", "o", "r", "a", " ", "b", "l", "i", "g", "h", "t">>
    @@ "Powdery mildew" :> <<"P", "o", "w", "d", "e", "r", "y", " ", "m", "i", "l", "d", "e", "w">>
    @@ "Bacterial leaf spot" :> <<"B", "a", "c", "t", "e", "r", "i", "a", "l", " ", "l", "e", "a", "f", " ", "s", "p", "o", "t">>
    @@ "Blight leaf spot" :> <<"B", "l", "i", "g", "h", "t", " ", "l", "e", "a", "f", " ", "s", "p", "o", "t">>
    @@ "2 kg" :> <<"2", " ", "k", "g">>
    @@ "2-3 kg" :> <<"2", "-", "3", " ", "k", "g">>
    @@ "2.5 kg" :> <<"2", ".", "5", " ", "k", "g">>
    @@ "3 kg" :> <<"3", " ", "k", "g">>
    @@ "3.5 kg" :> <<"3", ".", "5", " ", "k", "g">>
    @@ "image/" :> <<"i", "m", "a", "g", "e", "/">>
    @@ "image/jpeg" :> <<"i", "m", "a", "g", "e", "/", "j", "p", "e", "g">>
    @@ "text/plain" :> <<"t", "e", "x", "t", "/", "p", "l", "a", "i", "n">> )

Chars(s) == CharTable[s]

LowerChar(c) == IF c \in DOMAIN UpperToLower THEN UpperToLower[c] ELSE c

\* str.lower(), on characters
Lower(cs) == [i \in 1..Len(cs) |-> LowerChar(cs[i])]

\* `needle in hay`, on characters
Contains(hay, needle) ==
    \E i \in 0..(Len(hay) - Len(needle)) : SubSeq(hay, i + 1, i + Len(needle)) = needle

\* any(w in text for w in words), text already lower-cased characters
AnyIn(words, text) == \E i \in 1..Len(words) : Contains(text, Chars(words[i]))

\* dict.get(key, default) where the key is given by its characters
DictGet(d, keychars, default) ==
    IF \E k \in DOMAIN d : Chars(k) = keychars
    THEN d[CHOOSE k \in DOMAIN d : Chars(k) = keychars]
    ELSE default

\* dict.get(key, default) of a dict with str keys
Get(d, k, default) == IF k \in DOMAIN d THEN d[k] ELSE default

\* d[k] = v on a copy of the dict
SetKey(d, k, v) == (k :> v) @@ d

EmptyDict == [k \in {} |-> k]

Min(a, b) == IF a <= b THEN a ELSE b

Max(a, b) == IF a >= b THEN a ELSE b

(***************************************************************************)
(* Formatting.  n/d is the exact value; the result is the integer the      *)
(* format prints, in units of the last printed digit (round half to even,  *)
(* as Python rounds an exactly representable tie).                         *)
(***************************************************************************)
RoundHalfEven(n, d) ==
    LET q == n \div d
        r == n % d
    IN  IF 2 * r < d THEN q
        ELSE IF 2 * r > d THEN q + 1
        ELSE IF q % 2 = 0 THEN q ELSE q + 1

\* f"{x:.0f}"
Fmt0(n, d) == RoundHalfEven(n, d)

\* f"{x:.2f}", in hundredths
Fmt2(n, d) == (n \div d) * 100 + RoundHalfEven((n % d) * 100, d)

\* round(x, 1), in tenths
Round1(n, d) == (n \div d) * 10 + RoundHalfEven((n % d) * 10, d)

(***************************************************************************)
(* Reference data of CostCalculationService.load_pricing_data (dosage in   *)
(* 1/DoseScale kg per hectare, coverage_per_liter in tenths of a hectare)  *)
(* and of PesticideRecommendationService.load_pesticide_data.              *)
(***************************************************************************)
PricingData ==
    ( "Copper Hydroxide" :> [price_per_kg |-> 450, dosage_per_hectare |-> 10, water_ratio |-> 500, coverage_per_liter |-> 1]
    @@ "Streptomycin" :> [price_per_kg |-> 1200, dosage_per_hectare |-> 2, water_ratio |-> 800, coverage_per_liter |-> 1]
    @@ "Mancozeb" :> [price_per_kg |-> 520, dosage_per_hectare |-> 10, water_ratio |-> 400, coverage_per_liter |-> 1]
    @@ "Chlorothalonil" :> [price_per_kg |-> 680, dosage_per_hectare |-> 8, water_ratio |-> 500, coverage_per_liter |-> 1]
    @@ "Metalaxyl" :> [price_per_kg |-> 950, dosage_per_hectare |-> 6, water_ratio |-> 600, coverage_per_liter |-> 1]
    @@ "Copper Sulfate" :> [price_per_kg |-> 380, dosage_per_hectare |-> 12, water_ratio |-> 400, coverage_per_liter |-> 1]
    @@ "Carbendazim" :> [price_per_kg |-> 850, dosage_per_hectare |-> 4, water_ratio |-> 600, coverage_per_liter |-> 1]
    @@ "Propiconazole" :> [price_per_kg |-> 1500, dosage_per_hectare |-> 2, water_ratio |-> 800, coverage_per_liter |-> 1]
    @@ "Sulfur" :> [price_per_kg |-> 200, dosage_per_hectare |-> 12, water_ratio |-> 300, coverage_per_liter |-> 1]
    @@ "Cymoxanil" :> [price_per_kg |-> 1200, dosage_per_hectare |-> 2, water_ratio |-> 700, coverage_per_liter |-> 1]
    @@ "Fosetyl-Al" :> [price_per_kg |-> 780, dosage_per_hectare |-> 10, water_ratio |-> 500, coverage_per_liter |-> 1]
    @@ "Triadimefon" :> [price_per_kg |-> 2000, dosage_per_hectare |-> 1, water_ratio |-> 1000, coverage_per_liter |-> 1]
    @@ "Metalaxyl + Mancozeb" :> [price_per_kg |-> 850, dosage_per_hectare |-> 8, water_ratio |-> 500, coverage_per_liter |-> 1]
    @@ "Bleaching Powder" :> [price_per_kg |-> 150, dosage_per_hectare |-> 40, water_ratio |-> 100, coverage_per_liter |-> 1] )

TomatoProfiles ==
    ( "Bacterial_spot" :>
        [primary_pesticides |-> <<"Copper Hydroxide", "Streptomycin">>,
         alternative_pesticides |-> <<"Copper Sulfate", "Mancozeb">>,
         application_method |-> "Foliar spray",
         dosage_per_hectare |-> ("Copper Hydroxide" :> 10 @@ "Streptomycin" :> 2 @@ "Copper Sulfate" :> 12 @@ "Mancozeb" :> 8),
         price_per_kg |-> ("Copper Hydroxide" :> 450 @@ "Streptomycin" :> 1200 @@ "Copper Sulfate" :> 380 @@ "Mancozeb" :> 520),
         application_frequency |-> "Every 7-10 days",
         safety_period |-> 7,
         prevention_tips |-> <<"Use disease-free seeds", "Avoid overhead irrigation", "Maintain proper plant spacing", "Remove infected plant debris">>]
    @@ "Early_blight" :>
        [primary_pesticides |-> <<"Mancozeb", "Chlorothalonil">>,
         alternative_pesticides |-> <<"Copper Hydroxide", "Metalaxyl">>,
         application_method |-> "Foliar spray",
         dosage_per_hectare |-> ("Mancozeb" :> 10 @@ "Chlorothalonil" :> 8 @@ "Copper Hydroxide" :> 10 @@ "Metalaxyl" :> 6),
         price_per_kg |-> ("Mancozeb" :> 520 @@ "Chlorothalonil" :> 680 @@ "Copper Hydroxide" :> 450 @@ "Metalaxyl" :> 950),
         application_frequency |-> "Every 10-14 days",
         safety_period |-> 14,
         prevention_tips |-> <<"Crop rotation", "Remove lower leaves touching soil", "Improve air circulation", "Avoid water stress">>]
    @@ "Late_blight" :>
        [primary_pesticides |-> <<"Metalaxyl + Mancozeb", "Cymoxanil">>,
         alternative_pesticides |-> <<"Copper Hydroxide", "Fosetyl-Al">>,
         application_method |-> "Foliar spray",
         dosage_per_hectare |-> ("Metalaxyl + Mancozeb" :> 8 @@ "Cymoxanil" :> 2 @@ "Copper Hydroxide" :> 12 @@ "Fosetyl-Al" :> 10),
         price_per_kg |-> ("Metalaxyl + Mancozeb" :> 850 @@ "Cymoxanil" :> 1200 @@ "Copper Hydroxide" :> 450 @@ "Fosetyl-Al" :> 780),
         application_frequency |-> "Every 5-7 days during outbreak",
         safety_period |-> 21,
         prevention_tips |-> <<"Monitor weather conditions", "Use resistant varieties", "Ensure good drainage", "Apply preventive sprays">>]
    @@ "Leaf_Mold" :>
        [primary_pesticides |-> <<"Chlorothalonil", "Mancozeb">>,
         alternative_pesticides |-> <<"Copper Hydroxide", "Propiconazole">>,
         application_method |-> "Foliar spray",
         dosage_per_hectare |-> ("Chlorothalonil" :> 8 @@ "Mancozeb" :> 10 @@ "Copper Hydroxide" :> 10 @@ "Propiconazole" :> 2),
         price_per_kg |-> ("Chlorothalonil" :> 680 @@ "Mancozeb" :> 520 @@ "Copper Hydroxide" :> 450 @@ "Propiconazole" :> 1500),
         application_frequency |-> "Every 10-14 days",
         safety_period |-> 14,
         prevention_tips |-> <<"Improve greenhouse ventilation", "Reduce humidity", "Avoid overhead watering", "Remove infected leaves">>]
    @@ "Healthy" :>
        [primary_pesticides |-> <<>>,
         alternative_pesticides |-> <<>>,
         application_method |-> "Preventive measures only",
         prevention_tips |-> <<"Maintain good plant hygiene", "Regular monitoring", "Proper nutrition", "Adequate spacing">>] )

BrinjalProfiles ==
    ( "Bacterial_wilt" :>
        [primary_pesticides |-> <<"Streptomycin", "Copper Hydroxide">>,
         alternative_pesticides |-> <<"Copper Sulfate", "Bleaching Powder">>,
         application_method |-> "Soil drench and foliar spray",
         dosage_per_hectare |-> ("Streptomycin" :> 2 @@ "Copper Hydroxide" :> 10 @@ "Copper Sulfate" :> 12 @@ "Bleaching Powder" :> 40),
         price_per_kg |-> ("Streptomycin" :> 1200 @@ "Copper Hydroxide" :> 450 @@ "Copper Sulfate" :> 380 @@ "Bleaching Powder" :> 150),
         application_frequency |-> "Every 15 days",
         safety_period |-> 14,
         prevention_tips |-> <<"Use resistant varieties", "Soil solarization", "Crop rotation", "Avoid waterlogging">>]
    @@ "Cercospora_leaf_spot" :>
        [primary_pesticides |-> <<"Mancozeb", "Chlorothalonil">>,
         alternative_pesticides |-> <<"Copper Hydroxide", "Carbendazim">>,
         application_method |-> "Foliar spray",
         dosage_per_hectare |-> ("Mancozeb" :> 10 @@ "Chlorothalonil" :> 8 @@ "Copper Hydroxide" :> 10 @@ "Carbendazim" :> 4),
         price_per_kg |-> ("Mancozeb" :> 520 @@ "Chlorothalonil" :> 680 @@ "Copper Hydroxide" :> 450 @@ "Carbendazim" :> 850),
         application_frequency |-> "Every 10-14 days",
         safety_period |-> 14,
         prevention_tips |-> <<"Remove infected leaves", "Improve air circulation", "Avoid overhead irrigation", "Use clean seeds">>]
    @@ "Healthy" :>
        [primary_pesticides |-> <<>>,
         alternative_pesticides |-> <<>>,
         application_method |-> "Preventive measures only",
         prevention_tips |-> <<"Regular field inspection", "Proper fertilization", "Weed management", "Integrated pest management">>] )

CapsicumProfiles ==
    ( "Bacterial_spot" :>
        [primary_pesticides |-> <<"Copper Hydroxide", "Streptomycin">>,
         alternative_pesticides |-> <<"Copper Sulfate", "Mancozeb">>,
         application_method |-> "Foliar spray",
         dosage_per_hectare |-> ("Copper Hydroxide" :> 10 @@ "Streptomycin" :> 2 @@ "Copper Sulfate" :> 12 @@ "Mancozeb" :> 8),
         price_per_kg |-> ("Copper Hydroxide" :> 450 @@ "Streptomycin" :> 1200 @@ "Copper Sulfate" :> 380 @@ "Mancozeb" :> 520),
         application_frequency |-> "Every 7-10 days",
         safety_period |-> 7,
         prevention_tips |-> <<"Use certified seeds", "Avoid water splash", "Sanitize tools", "Remove plant debris">>]
    @@ "Powdery_mildew" :>
        [primary_pesticides |-> <<"Sulfur", "Propiconazole">>,
         alternative_pesticides |-> <<"Carbendazim", "Triadimefon">>,
         application_method |-> "Foliar spray",
         dosage_per_hectare |-> ("Sulfur" :> 12 @@ "Propiconazole" :> 2 @@ "Carbendazim" :> 4 @@ "Triadimefon" :> 1),
         price_per_kg |-> ("Sulfur" :> 200 @@ "Propiconazole" :> 1500 @@ "Carbendazim" :> 850 @@ "Triadimefon" :> 2000),
         application_frequency |-> "Every 10-14 days",
         safety_period |-> 14,
         prevention_tips |-> <<"Ensure good air circulation", "Avoid excessive nitrogen", "Monitor humidity levels", "Use resistant varieties">>]
    @@ "Anthracnose" :>
        [primary_pesticides |-> <<"Mancozeb", "Chlorothalonil">>,
         alternative_pesticides |-> <<"Copper Hydroxide", "Carbendazim">>,
         application_method |-> "Foliar spray",
         dosage_per_hectare |-> ("Mancozeb" :> 10 @@ "Chlorothalonil" :> 8 @@ "Copper Hydroxide" :> 10 @@ "Carbendazim" :> 4),
         price_per_kg |-> ("Mancozeb" :> 520 @@ "Chlorothalonil" :> 680 @@ "Copper Hydroxide" :> 450 @@ "Carbendazim" :> 850),
         application_frequency |-> "Every 10-14 days",
         safety_period |-> 14,
         prevention_tips |-> <<"Harvest fruits at proper maturity", "Handle fruits carefully", "Maintain field sanitation", "Store in proper conditions">>]
    @@ "Healthy" :>
        [primary_pesticides |-> <<>>,
         alternative_pesticides |-> <<>>,
         application_method |-> "Preventive measures only",
         prevention_tips |-> <<"Regular monitoring", "Balanced nutrition", "Proper irrigation", "Pest management">>] )

(***************************************************************************)
(* CostCalculationService                                                  *)
(***************************************************************************)
\* self.regional_multipliers as loaded by load_pricing_data, in hundredths
RegionalData ==
    ( "north" :> 100 @@ "south" :> 110 @@ "east" :> 95 @@ "west" :> 105
      @@ "central" :> 100 @@ "default" :> 100 )

\* the multipliers table of get_severity_multiplier, in tenths
SeverityMultipliers == ( "mild" :> 8 @@ "moderate" :> 10 @@ "severe" :> 13 @@ "healthy" :> 0 )

get_severity_multiplier(severity) ==
    DictGet(SeverityMultipliers, Lower(Chars(severity)), 10)

\* the applications table of get_applications_needed
ApplicationsTable == ( "mild" :> 2 @@ "moderate" :> 3 @@ "severe" :> 4 @@ "healthy" :> 0 )

\* get_applications_needed with the Severe count left at the standard 3
get_applications_needed_flat(severity) ==
    DictGet(( "mild" :> 2 @@ "moderate" :> 3 @@ "severe" :> 3 @@ "healthy" :> 0 ),
            Lower(Chars(severity)), 3)

get_applications_needed(severity) ==
    DictGet(ApplicationsTable, Lower(Chars(severity)), 3)

NorthKeywords == <<"punjab", "haryana", "delhi", "rajasthan", "up", "uttarakhand">>
SouthKeywords == <<"karnataka", "tamil nadu", "kerala", "andhra", "telangana">>
EastKeywords == <<"west bengal", "odisha", "bihar", "jharkhand", "assam">>
WestKeywords == <<"maharashtra", "gujarat", "goa", "rajasthan">>

\* region_key answering "default" for text that matches no keyword
region_key_unmatched_default(location) ==
    IF location = "" THEN "default"
    ELSE LET location_lower == Lower(Chars(location))
         IN  IF AnyIn(NorthKeywords, location_lower) THEN "north"
             ELSE IF AnyIn(SouthKeywords, location_lower) THEN "south"
             ELSE IF AnyIn(EastKeywords, location_lower) THEN "east"
             ELSE IF AnyIn(WestKeywords, location_lower) THEN "west"
             ELSE "default"

\* region_key testing the West keywords before the South and East ones
region_key_west_first(location) ==
    IF location = "" THEN "default"
    ELSE LET location_lower == Lower(Chars(location))
         IN  IF AnyIn(NorthKeywords, location_lower) THEN "north"
             ELSE IF AnyIn(WestKeywords, location_lower) THEN "west"
             ELSE IF AnyIn(SouthKeywords, location_lower) THEN "south"
             ELSE IF AnyIn(EastKeywords, location_lower) THEN "east"
             ELSE "central"

\* the key of regional_multipliers that get_regional_multiplier reads for a location
region_key(location) ==
    IF location = "" THEN "default"
    ELSE LET location_lower == Lower(Chars(location))
         IN  IF AnyIn(NorthKeywords, location_lower) THEN "north"
             ELSE IF AnyIn(SouthKeywords, location_lower) THEN "south"
             ELSE IF AnyIn(EastKeywords, location_lower) THEN "east"
             ELSE IF AnyIn(WestKeywords, location_lower) THEN "west"
             ELSE "central"

get_regional_multiplier(location) == regional_multipliers[region_key(location)]

\* dosage in hundredths of a kg/ha as printed, water_ratio as given
get_application_instructions(pesticide, dosage, dosage_scale, water_ratio) ==
    [pesticide |-> pesticide, dosage |-> Fmt2(dosage, dosage_scale), water |-> water_ratio]

\* get_cost_breakdown leaving the equipment charge out of the total
get_cost_breakdown_without_equipment(pesticide, amount, amount_scale, price, price_scale, applications) ==
    LET total_cost == amount * price
        cost_scale == amount_scale * price_scale
    IN  [pesticide_cost |-> Fmt2(total_cost, cost_scale),
         amount_needed |-> Fmt2(amount, amount_scale),
         price_per_kg |-> Fmt2(price, price_scale),
         applications |-> applications,
         cost_per_application |-> Fmt2(total_cost, cost_scale * applications),
         additional_costs |->
             [labor |-> applications * 500 * 100,
              fuel |-> applications * 200 * 100,
              equipment |-> applications * 100 * 100],
         total_treatment_cost |-> Fmt2(total_cost + applications * 700 * cost_scale, cost_scale)]

\* amount = amount/amount_scale kg, price_per_kg = price/price_scale rupees.
\* Every printed amount is in hundredths.  Divides by applications.
get_cost_breakdown(pesticide, amount, amount_scale, price, price_scale, applications) ==
    LET total_cost == amount * price
        cost_scale == amount_scale * price_scale
    IN  [pesticide_cost |-> Fmt2(total_cost, cost_scale),
         amount_needed |-> Fmt2(amount, amount_scale),
         price_per_kg |-> Fmt2(price, price_scale),
         applications |-> applications,
         cost_per_application |-> Fmt2(total_cost, cost_scale * applications),
         additional_costs |->
             [labor |-> applications * 500 * 100,
              fuel |-> applications * 200 * 100,
              equipment |-> applications * 100 * 100],
         total_treatment_cost |-> Fmt2(total_cost + applications * 800 * cost_scale, cost_scale)]

\* default_locals dosing one hectare whatever the farm size
default_locals_per_hectare(farm_size) ==
    LET default_data == pesticide_prices["Copper Hydroxide"]
        dosage == default_data.dosage_per_hectare * FarmScale
    IN  [pesticide |-> "Copper Hydroxide",
         adjusted_dosage_per_hectare |-> default_data.dosage_per_hectare,
         dosage_scale |-> DoseScale,
         total_amount_kg |-> dosage,
         amount_scale |-> DoseScale * FarmScale,
         price_per_kg |-> default_data.price_per_kg,
         price_scale |-> 1,
         total_cost |-> dosage * default_data.price_per_kg,
         cost_scale |-> DoseScale * FarmScale,
         total_water_needed |-> dosage * default_data.water_ratio,
         applications_needed |-> 3]

\* The locals of get_default_cost_calculation: dosage in 1/(DoseScale*FarmScale) kg,
\* cost in 1/(DoseScale*FarmScale) rupees, water in 1/(DoseScale*FarmScale) litres.
default_locals(farm_size) ==
    LET default_data == pesticide_prices["Copper Hydroxide"]
        dosage == default_data.dosage_per_hectare * farm_size
    IN  [pesticide |-> "Copper Hydroxide",
         adjusted_dosage_per_hectare |-> default_data.dosage_per_hectare,
         dosage_scale |-> DoseScale,
         total_amount_kg |-> dosage,
         amount_scale |-> DoseScale * FarmScale,
         price_per_kg |-> default_data.price_per_kg,
         price_scale |-> 1,
         total_cost |-> dosage * default_data.price_per_kg,
         cost_scale |-> DoseScale * FarmScale,
         total_water_needed |-> dosage * default_data.water_ratio,
         applications_needed |-> 3]

get_default_cost_calculation(farm_size) ==
    LET default_data == pesticide_prices["Copper Hydroxide"]
        l == default_locals(farm_size)
    IN  [pesticide_name |-> "Copper Hydroxide",
         amount_per_hectare |-> Fmt2(default_data.dosage_per_hectare, DoseScale),
         total_amount_needed |-> Fmt2(l.total_amount_kg, l.amount_scale),
         cost_per_liter |-> Fmt2(default_data.price_per_kg, 1),
         cost_estimate |-> Fmt2(l.total_cost, l.cost_scale),
         water_needed |-> Fmt0(l.total_water_needed, l.amount_scale),
         applications_needed |-> 3,
         cost_per_application |-> Fmt2(l.total_cost, l.cost_scale * 3),
         potential_savings |-> Fmt2(l.total_cost * 3, l.cost_scale * 10),
         reduction_percentage |-> 300,
         environmental_benefit |-> Fmt2(l.total_amount_kg * 3, l.amount_scale * 10),
         application_instructions |->
             get_application_instructions("Copper Hydroxide", default_data.dosage_per_hectare,
                                          DoseScale, default_data.water_ratio),
         cost_breakdown |->
             get_cost_breakdown("Copper Hydroxide", l.total_amount_kg, l.amount_scale,
                                default_data.price_per_kg, 1, 3)]

\* traditional_usage_multiplier of calculate_treatment_cost, in tenths
TraditionalUsage == 15

\* treatment_locals pricing at the base price, without the regional multiplier
treatment_locals_base_price(pesticides, farm_size, severity, location) ==
    LET primary_pesticide == pesticides[1]
        pesticide_data == pesticide_prices[primary_pesticide]
        adjusted == pesticide_data.dosage_per_hectare * get_severity_multiplier(severity)
        total_amount_kg == adjusted * farm_size
        price_per_kg == pesticide_data.price_per_kg * RegionScale
    IN  [pesticide |-> primary_pesticide,
         adjusted_dosage_per_hectare |-> adjusted,
         dosage_scale |-> DoseScale * SevScale,
         total_amount_kg |-> total_amount_kg,
         amount_scale |-> DoseScale * SevScale * FarmScale,
         price_per_kg |-> price_per_kg,
         price_scale |-> RegionScale,
         total_cost |-> total_amount_kg * price_per_kg,
         cost_scale |-> DoseScale * SevScale * FarmScale * RegionScale,
         total_water_needed |-> total_amount_kg * pesticide_data.water_ratio,
         applications_needed |-> get_applications_needed(severity)]

\* treatment_locals charging a minimum of one farm-size unit, as max(farm_size, ...) would
treatment_locals_min_farm(pesticides, farm_size, severity, location) ==
    LET primary_pesticide == pesticides[1]
        pesticide_data == pesticide_prices[primary_pesticide]
        adjusted == pesticide_data.dosage_per_hectare * get_severity_multiplier(severity)
        total_amount_kg == adjusted * Max(farm_size, 1)
        price_per_kg == pesticide_data.price_per_kg * get_regional_multiplier(location)
    IN  [pesticide |-> primary_pesticide,
         adjusted_dosage_per_hectare |-> adjusted,
         dosage_scale |-> DoseScale * SevScale,
         total_amount_kg |-> total_amount_kg,
         amount_scale |-> DoseScale * SevScale * FarmScale,
         price_per_kg |-> price_per_kg,
         price_scale |-> RegionScale,
         total_cost |-> total_amount_kg * price_per_kg,
         cost_scale |-> DoseScale * SevScale * FarmScale * RegionScale,
         total_water_needed |-> total_amount_kg * pesticide_data.water_ratio,
         applications_needed |-> get_applications_needed(severity)]

\* treatment_locals dosing the last catalogued name of the list instead of the first
treatment_locals_last_listed(pesticides, farm_size, severity, location) ==
    LET listed == {i \in 1..Len(pesticides) : pesticides[i] \in DOMAIN pesticide_prices}
        primary_pesticide == pesticides[CHOOSE i \in listed : \A j \in listed : j <= i]
        pesticide_data == pesticide_prices[primary_pesticide]
        adjusted == pesticide_data.dosage_per_hectare * get_severity_multiplier(severity)
        total_amount_kg == adjusted * farm_size
        price_per_kg == pesticide_data.price_per_kg * get_regional_multiplier(location)
    IN  [pesticide |-> primary_pesticide,
         adjusted_dosage_per_hectare |-> adjusted,
         dosage_scale |-> DoseScale * SevScale,
         total_amount_kg |-> total_amount_kg,
         amount_scale |-> DoseScale * SevScale * FarmScale,
         price_per_kg |-> price_per_kg,
         price_scale |-> RegionScale,
         total_cost |-> total_amount_kg * price_per_kg,
         cost_scale |-> DoseScale * SevScale * FarmScale * RegionScale,
         total_water_needed |-> total_amount_kg * pesticide_data.water_ratio,
         applications_needed |-> get_applications_needed(severity)]

\* The locals of calculate_treatment_cost on the path that looks the first pesticide up:
\* adjusted dosage in 1/(DoseScale*SevScale) kg/ha, amounts in 1/(DoseScale*SevScale*FarmScale),
\* the regional price in 1/RegionScale rupees, costs in the product of the two.
treatment_locals(pesticides, farm_size, severity, location) ==
    LET primary_pesticide == pesticides[1]
        pesticide_data == pesticide_prices[primary_pesticide]
        adjusted == pesticide_data.dosage_per_hectare * get_severity_multiplier(severity)
        total_amount_kg == adjusted * farm_size
        price_per_kg == pesticide_data.price_per_kg * get_regional_multiplier(location)
    IN  [pesticide |-> primary_pesticide,
         adjusted_dosage_per_hectare |-> adjusted,
         dosage_scale |-> DoseScale * SevScale,
         total_amount_kg |-> total_amount_kg,
         amount_scale |-> DoseScale * SevScale * FarmScale,
         price_per_kg |-> price_per_kg,
         price_scale |-> RegionScale,
         total_cost |-> total_amount_kg * price_per_kg,
         cost_scale |-> DoseScale * SevScale * FarmScale * RegionScale,
         total_water_needed |-> total_amount_kg * pesticide_data.water_ratio,
         applications_needed |-> get_applications_needed(severity)]

\* the dict calculate_treatment_cost returns from its try block
treatment_plan(l, water_ratio) ==
    [pesticide_name |-> l.pesticide,
     amount_per_hectare |-> Fmt2(l.adjusted_dosage_per_hectare, l.dosage_scale),
     total_amount_needed |-> Fmt2(l.total_amount_kg, l.amount_scale),
     cost_per_liter |-> Fmt2(l.price_per_kg, l.price_scale),
     cost_estimate |-> Fmt2(l.total_cost, l.cost_scale),
     water_needed |-> Fmt0(l.total_water_needed, l.amount_scale),
     applications_needed |-> l.applications_needed,
     cost_per_application |-> Fmt2(l.total_cost, l.cost_scale * l.applications_needed),
     potential_savings |-> Fmt2(l.total_cost * (TraditionalUsage - 10), l.cost_scale * 10),
     reduction_percentage |-> Round1((TraditionalUsage - 10) * 100, TraditionalUsage),
     environmental_benefit |->
         Fmt2(l.total_amount_kg * (TraditionalUsage - 10), l.amount_scale * 10),
     application_instructions |->
         get_application_instructions(l.pesticide, l.adjusted_dosage_per_hectare,
                                      l.dosage_scale, water_ratio),
     cost_breakdown |->
         get_cost_breakdown(l.pesticide, l.total_amount_kg, l.amount_scale,
                            l.price_per_kg, l.price_scale, l.applications_needed)]

\* calculate_treatment_cost without its except clause
calculate_treatment_cost_uncaught(pesticides, farm_size, severity, location) ==
    IF Len(pesticides) = 0 \/ pesticides[1] \notin DOMAIN pesticide_prices
    THEN [error |-> "none", path |-> "default", caught |-> "none",
          locals |-> default_locals(farm_size),
          plan |-> get_default_cost_calculation(farm_size)]
    ELSE LET l == treatment_locals(pesticides, farm_size, severity, location)
         IN  IF l.applications_needed = 0
             THEN \* total_cost / applications_needed raises and nothing catches it
                  [error |-> "ZeroDivisionError", path |-> "raised", caught |-> "none",
                   locals |-> default_locals(farm_size),
                   plan |-> get_default_cost_calculation(farm_size)]
             ELSE [error |-> "none", path |-> "normal", caught |-> "none",
                   locals |-> l,
                   plan |-> treatment_plan(l, pesticide_prices[pesticides[1]].water_ratio)]

\* calculate_treatment_cost: the exception that reaches the caller, the path taken, the
\* exception its try block caught, the exact quantities behind the plan, the plan returned.
calculate_treatment_cost(pesticides, farm_size, severity, location) ==
    IF Len(pesticides) = 0 \/ pesticides[1] \notin DOMAIN pesticide_prices
    THEN [error |-> "none", path |-> "default", caught |-> "none",
          locals |-> default_locals(farm_size),
          plan |-> get_default_cost_calculation(farm_size)]
    ELSE LET l == treatment_locals(pesticides, farm_size, severity, location)
         IN  IF l.applications_needed = 0
             THEN \* total_cost / applications_needed raises; the except clause answers
                  [error |-> "none", path |-> "default", caught |-> "ZeroDivisionError",
                   locals |-> default_locals(farm_size),
                   plan |-> get_default_cost_calculation(farm_size)]
             ELSE [error |-> "none", path |-> "normal", caught |-> "none",
                   locals |-> l,
                   plan |-> treatment_plan(l, pesticide_prices[pesticides[1]].water_ratio)]

\* get_effectiveness_rating: the ratings table and its default
EffectivenessRatings ==
    ( "Streptomycin" :> "High" @@ "Metalaxyl" :> "High" @@ "Propiconazole" :> "High"
      @@ "Chlorothalonil" :> "Medium-High" @@ "Mancozeb" :> "Medium"
      @@ "Copper Hydroxide" :> "Medium" @@ "Carbendazim" :> "Medium"
      @@ "Copper Sulfate" :> "Medium-Low" @@ "Sulfur" :> "Low-Medium" )

get_effectiveness_rating(pesticide) == Get(EffectivenessRatings, pesticide, "Medium")

\* list.sort(key=cost), stable: an entry goes after the entries that cost no more
InsertByCost(sorted, entry) ==
    LET k == Cardinality({i \in 1..Len(sorted) : sorted[i].cost <= entry.cost})
    IN  SubSeq(sorted, 1, k) \o <<entry>> \o SubSeq(sorted, k + 1, Len(sorted))

RECURSIVE SortByCost(_)
SortByCost(entries) ==
    IF Len(entries) = 0 THEN <<>>
    ELSE InsertByCost(SortByCost(SubSeq(entries, 1, Len(entries) - 1)), entries[Len(entries)])

\* the entry compare_pesticide_costs appends for a catalogued name; farm_size is not 0
\* (cost / farm_size).  Amounts and costs are in hundredths.
comparison_entry(pesticide, farm_size) ==
    LET data == pesticide_prices[pesticide]
        amount_needed == data.dosage_per_hectare * farm_size
        cost == amount_needed * data.price_per_kg
        sign == IF farm_size < 0 THEN 0 - 1 ELSE 1
    IN  [pesticide |-> pesticide,
         amount_needed |-> Fmt2(amount_needed, DoseScale * FarmScale),
         cost |-> Fmt2(cost, DoseScale * FarmScale),
         cost_per_hectare |-> Fmt2(cost * sign * FarmScale, DoseScale * FarmScale * farm_size * sign),
         effectiveness_rating |-> get_effectiveness_rating(pesticide)]

\* compare_pesticide_costs appending in input order and returning without the sort
compare_pesticide_costs_unsorted(pesticides, farm_size) ==
    LET listed == SelectSeq(pesticides, LAMBDA n : n \in DOMAIN pesticide_prices)
    IN  IF farm_size = 0 /\ Len(listed) > 0
        THEN [caught |-> "ZeroDivisionError", comparisons |-> <<>>]
        ELSE [caught |-> "none",
              comparisons |-> [i \in 1..Len(listed) |-> comparison_entry(listed[i], farm_size)]]

\* compare_pesticide_costs: the exception its try block caught and the list returned
compare_pesticide_costs(pesticides, farm_size) ==
    LET listed == SelectSeq(pesticides, LAMBDA n : n \in DOMAIN pesticide_prices)
    IN  IF farm_size = 0 /\ Len(listed) > 0
        THEN [caught |-> "ZeroDivisionError", comparisons |-> <<>>]
        ELSE [caught |-> "none",
              comparisons |->
                  SortByCost([i \in 1..Len(listed) |-> comparison_entry(listed[i], farm_size)])]

(***************************************************************************)
(* PesticideRecommendationService                                          *)
(***************************************************************************)
\* self.pesticide_database as loaded by load_pesticide_data
PesticideData ==
    ( "tomato" :> TomatoProfiles @@ "brinjal" :> BrinjalProfiles
      @@ "capsicum" :> CapsicumProfiles )

IsCopper(p) == Contains(Lower(Chars(p)), Chars("copper"))

\* copper_options[:2]
FirstTwo(s) == SubSeq(s, 1, Min(2, Len(s)))

\* adjust_for_severity preferring copper names without looking at the alternative list
adjust_for_severity_no_alternative_test(disease_data, severity) ==
    IF severity = "severe"
    THEN IF Len(Get(disease_data, "primary_pesticides", <<>>)) > 1
         THEN SetKey(SetKey(disease_data, "application_method",
                            disease_data.application_method
                                \o " (combination treatment recommended)"),
                     "application_frequency", "Every 5-7 days until controlled")
         ELSE disease_data
    ELSE IF severity = "mild"
    THEN LET primary == Get(disease_data, "primary_pesticides", <<>>)
             alternative == Get(disease_data, "alternative_pesticides", <<>>)
             copper_options == SelectSeq(primary \o alternative, IsCopper)
         IN  IF Len(copper_options) > 0
             THEN SetKey(disease_data, "primary_pesticides", FirstTwo(copper_options))
             ELSE disease_data
    ELSE disease_data

\* adjust_for_severity recommending the combination for any non-empty primary list
adjust_for_severity_any_primary(disease_data, severity) ==
    IF severity = "severe"
    THEN IF Len(Get(disease_data, "primary_pesticides", <<>>)) > 0
         THEN SetKey(SetKey(disease_data, "application_method",
                            disease_data.application_method
                                \o " (combination treatment recommended)"),
                     "application_frequency", "Every 5-7 days until controlled")
         ELSE disease_data
    ELSE IF severity = "mild"
    THEN IF Len(Get(disease_data, "alternative_pesticides", <<>>)) > 0
         THEN LET primary == Get(disease_data, "primary_pesticides", <<>>)
                  alternative == Get(disease_data, "alternative_pesticides", <<>>)
                  copper_options == SelectSeq(primary \o alternative, IsCopper)
              IN  IF Len(copper_options) > 0
                  THEN SetKey(disease_data, "primary_pesticides", FirstTwo(copper_options))
                  ELSE disease_data
         ELSE disease_data
    ELSE disease_data

\* adjust_for_severity works on disease_data.copy(): the argument is left as it was
adjust_for_severity(disease_data, severity) ==
    IF severity = "severe"
    THEN IF Len(Get(disease_data, "primary_pesticides", <<>>)) > 1
         THEN SetKey(SetKey(disease_data, "application_method",
                            disease_data.application_method
                                \o " (combination treatment recommended)"),
                     "application_frequency", "Every 5-7 days until controlled")
         ELSE disease_data
    ELSE IF severity = "mild"
    THEN IF Len(Get(disease_data, "alternative_pesticides", <<>>)) > 0
         THEN LET primary == Get(disease_data, "primary_pesticides", <<>>)
                  alternative == Get(disease_data, "alternative_pesticides", <<>>)
                  copper_options == SelectSeq(primary \o alternative, IsCopper)
              IN  IF Len(copper_options) > 0
                  THEN SetKey(disease_data, "primary_pesticides", FirstTwo(copper_options))
                  ELSE disease_data
         ELSE disease_data
    ELSE disease_data

\* stored_after_adjust_for_severity when the adjustment is made on disease_data itself
stored_after_adjust_for_severity_in_place(disease_data, severity) ==
    adjust_for_severity(disease_data, severity)

\* stored_after_adjust_for_severity when the new primary list is also written to disease_data
stored_after_adjust_for_severity_primary_written(disease_data, severity) ==
    IF "primary_pesticides" \in DOMAIN disease_data
    THEN SetKey(disease_data, "primary_pesticides",
                adjust_for_severity(disease_data, severity).primary_pesticides)
    ELSE disease_data

\* the dict passed to adjust_for_severity, as it is once the call returned: the method
\* works on disease_data.copy(), replaces keys of the copy and builds new strings and
\* lists, so the stored dict keeps every entry
stored_after_adjust_for_severity(disease_data, severity) == disease_data

RainWords == <<"rain", "wet", "humid">>
HotWords == <<"hot", "dry", "sunny">>
WindWords == <<"wind">>

RainNote == "Avoid application during rain. Apply systemic fungicides for better rain-fastness."
HotNote == "Apply during cooler parts of day (early morning/evening). Increase water volume for better coverage."
WindNote == "Avoid application during windy conditions to prevent drift. Use appropriate nozzles."

\* adjust_for_weather with three independent tests instead of if/elif: a later rule
\* overwrites the note of an earlier one
adjust_for_weather_last_note(recommendations, weather_conditions) ==
    IF weather_conditions = "" THEN recommendations
    ELSE LET weather_lower == Lower(Chars(weather_conditions))
             rain == IF AnyIn(RainWords, weather_lower)
                     THEN SetKey(recommendations, "weather_note", RainNote)
                     ELSE recommendations
             hot == IF AnyIn(HotWords, weather_lower)
                    THEN SetKey(rain, "weather_note", HotNote)
                    ELSE rain
         IN  IF AnyIn(WindWords, weather_lower)
             THEN SetKey(hot, "weather_note", WindNote)
             ELSE hot

adjust_for_weather(recommendations, weather_conditions) ==
    IF weather_conditions = "" THEN recommendations
    ELSE LET weather_lower == Lower(Chars(weather_conditions))
         IN  IF AnyIn(RainWords, weather_lower)
             THEN SetKey(recommendations, "weather_note", RainNote)
             ELSE IF AnyIn(HotWords, weather_lower)
             THEN SetKey(recommendations, "weather_note", HotNote)
             ELSE IF AnyIn(WindWords, weather_lower)
             THEN SetKey(recommendations, "weather_note", WindNote)
             ELSE recommendations

\* get_timing_recommendations testing the weather text as typed, without lower()
get_timing_recommendations_exact_case(disease, severity, weather) ==
    LET base == IF severity = "severe"
                THEN <<"Apply immediately upon detection",
                       "Repeat application every 5-7 days">>
                ELSE <<"Apply at first sign of symptoms",
                       "Follow regular spray schedule">>
        by_weather == IF Contains(Chars(weather), Chars("rain"))
                      THEN <<"Apply after rain stops and leaves dry",
                             "Check weather forecast for 24-hour rain-free period">>
                      ELSE <<"Best application time: Early morning (6-10 AM) or evening (4-7 PM)",
                             "Avoid application during peak sun hours">>
        disease_lower == Lower(Chars(disease))
        by_disease == IF Contains(disease_lower, Chars("blight"))
                      THEN <<"Apply preventively during favorable disease conditions">>
                      ELSE IF Contains(disease_lower, Chars("spot"))
                      THEN <<"Apply at 7-10 day intervals during disease season">>
                      ELSE <<>>
    IN  base \o by_weather \o by_disease

get_timing_recommendations(disease, severity, weather) ==
    LET base == IF severity = "severe"
                THEN <<"Apply immediately upon detection",
                       "Repeat application every 5-7 days">>
                ELSE <<"Apply at first sign of symptoms",
                       "Follow regular spray schedule">>
        by_weather == IF Contains(Lower(Chars(weather)), Chars("rain"))
                      THEN <<"Apply after rain stops and leaves dry",
                             "Check weather forecast for 24-hour rain-free period">>
                      ELSE <<"Best application time: Early morning (6-10 AM) or evening (4-7 PM)",
                             "Avoid application during peak sun hours">>
        disease_lower == Lower(Chars(disease))
        by_disease == IF Contains(disease_lower, Chars("blight"))
                      THEN <<"Apply preventively during favorable disease conditions">>
                      ELSE IF Contains(disease_lower, Chars("spot"))
                      THEN <<"Apply at 7-10 day intervals during disease season">>
                      ELSE <<>>
    IN  base \o by_weather \o by_disease

SevereSchedule ==
    <<"Monitor daily for first week", "Assess treatment effectiveness after 7 days",
      "Continue treatment every 5-7 days until controlled",
      "Switch to preventive schedule once controlled">>
ModerateSchedule ==
    <<"Monitor every 2-3 days", "Assess after 10 days",
      "Continue treatment every 10-14 days", "Reduce frequency as symptoms improve">>
MildSchedule ==
    <<"Monitor weekly", "Assess after 14 days", "Apply preventive treatments as needed",
      "Continue monitoring throughout season">>
HealthySchedule ==
    <<"Continue regular monitoring", "Apply preventive measures",
      "Maintain good cultural practices">>

get_follow_up_schedule(disease, severity) ==
    IF Lower(Chars(disease)) = Chars("healthy") THEN HealthySchedule
    ELSE IF severity = "severe" THEN SevereSchedule
    ELSE IF severity = "moderate" THEN ModerateSchedule
    ELSE MildSchedule

\* get_default_recommendations naming a substance the price table does not hold
get_default_recommendations_generic(crop_type) ==
    [primary_pesticides |-> <<"Copper Hydroxide", "General copper fungicide">>,
     alternative_pesticides |-> <<"Chlorothalonil">>,
     application_method |-> "Foliar spray",
     prevention_tips |->
         <<"Regular field monitoring", "Maintain plant hygiene",
           "Proper irrigation management", "Use disease-free planting material">>,
     timing |-> <<"Apply at first sign of disease", "Best time: Early morning or evening">>,
     follow_up_schedule |-> <<"Monitor weekly", "Repeat application as needed">>]

get_default_recommendations(crop_type) ==
    [primary_pesticides |-> <<"Copper Hydroxide", "Mancozeb">>,
     alternative_pesticides |-> <<"Chlorothalonil">>,
     application_method |-> "Foliar spray",
     prevention_tips |->
         <<"Regular field monitoring", "Maintain plant hygiene",
           "Proper irrigation management", "Use disease-free planting material">>,
     timing |-> <<"Apply at first sign of disease", "Best time: Early morning or evening">>,
     follow_up_schedule |-> <<"Monitor weekly", "Repeat application as needed">>]

\* get_recommendations without the `if not disease_data` test: a missing profile is
\* adjusted like any other
get_recommendations_unchecked(disease, crop_type, severity, weather_conditions) ==
    LET crop_data == Get(pesticide_database, crop_type, EmptyDict)
        disease_data == Get(crop_data, disease, EmptyDict)
        by_severity == adjust_for_severity(disease_data, severity)
        by_weather == adjust_for_weather(by_severity, weather_conditions)
        timed == SetKey(by_weather, "timing",
                        get_timing_recommendations(disease, severity, weather_conditions))
    IN  [error |-> "none", path |-> IF DOMAIN disease_data = {} THEN "default" ELSE "profile",
         recommendations |->
             SetKey(timed, "follow_up_schedule", get_follow_up_schedule(disease, severity))]

\* get_recommendations: whether a profile was found, and the dict returned
get_recommendations(disease, crop_type, severity, weather_conditions) ==
    LET crop_data == Get(pesticide_database, crop_type, EmptyDict)
        disease_data == Get(crop_data, disease, EmptyDict)
    IN  IF DOMAIN disease_data = {}
        THEN [error |-> "none", path |-> "default",
              recommendations |-> get_default_recommendations(crop_type)]
        ELSE LET by_severity == adjust_for_severity(disease_data, severity)
                 by_weather == adjust_for_weather(by_severity, weather_conditions)
                 timed == SetKey(by_weather, "timing",
                                 get_timing_recommendations(disease, severity,
                                                            weather_conditions))
             IN  [error |-> "none", path |-> "profile",
                  recommendations |->
                      SetKey(timed, "follow_up_schedule",
                             get_follow_up_schedule(disease, severity))]

\* self.pesticide_database once get_recommendations returned: the profile it looked up
\* went through adjust_for_severity; weather note, timing and follow-up schedule are set
\* on the dict adjust_for_severity returned
database_after_get_recommendations(disease, crop_type, severity, weather_conditions) ==
    LET crop_data == Get(pesticide_database, crop_type, EmptyDict)
        disease_data == Get(crop_data, disease, EmptyDict)
    IN  IF DOMAIN disease_data = {} THEN pesticide_database
        ELSE [pesticide_database EXCEPT
                  ![crop_type][disease] = stored_after_adjust_for_severity(disease_data, severity)]

\* the order in which crop_data.items() yields the profiles of a crop: the order in
\* which load_pesticide_data writes them
ProfileOrder ==
    ( "tomato" :> <<"Bacterial_spot", "Early_blight", "Late_blight", "Leaf_Mold", "Healthy">>
      @@ "brinjal" :> <<"Bacterial_wilt", "Cercospora_leaf_spot", "Healthy">>
      @@ "capsicum" :> <<"Bacterial_spot", "Powdery_mildew", "Anthracnose", "Healthy">> )

\* the profiles of a crop whose dosage table lists the name, in iteration order
ProfilesListing(pesticide_name, crop_type) ==
    LET crop_data == Get(pesticide_database, crop_type, EmptyDict)
        order == Get(ProfileOrder, crop_type, <<>>)
    IN  SelectSeq(order,
                  LAMBDA disease :
                      /\ disease \in DOMAIN crop_data
                      /\ pesticide_name \in
                             DOMAIN Get(crop_data[disease], "dosage_per_hectare", EmptyDict))

\* get_pesticide_details: the figures of the first profile of the crop that lists the
\* name, {} when none does
get_pesticide_details(pesticide_name, crop_type) ==
    LET found == ProfilesListing(pesticide_name, crop_type)
        crop_data == Get(pesticide_database, crop_type, EmptyDict)
    IN  IF found = <<>> THEN EmptyDict
        ELSE LET data == crop_data[found[1]]
             IN  [name |-> pesticide_name,
                  dosage_per_hectare |-> data.dosage_per_hectare[pesticide_name],
                  price_per_kg |-> Get(Get(data, "price_per_kg", EmptyDict),
                                       pesticide_name, 0),
                  application_method |-> Get(data, "application_method", "Foliar spray"),
                  safety_period |-> Get(data, "safety_period", 14),
                  frequency |-> Get(data, "application_frequency", "Every 10-14 days")]

(***************************************************************************)
(* src/backend/core/pesticide.py: the simplified plan calculator           *)
(***************************************************************************)
\* CATALOG: dose_per_ha_l in tenths of a litre per hectare, price_per_l in rupees
CATALOG ==
    ( "tomato" :>
        ( "Early blight" :> [actives |-> <<"Mancozeb", "Chlorothalonil">>, dose_per_ha_l |-> 8, price_per_l |-> 600]
        @@ "Late blight" :> [actives |-> <<"Metalaxyl", "Copper oxychloride">>, dose_per_ha_l |-> 12, price_per_l |-> 750]
        @@ "Bacterial spot" :> [actives |-> <<"Copper hydroxide">>, dose_per_ha_l |-> 10, price_per_l |-> 680]
        @@ "Septoria leaf spot" :> [actives |-> <<"Chlorothalonil">>, dose_per_ha_l |-> 9, price_per_l |-> 620]
        @@ "Leaf mold" :> [actives |-> <<"Copper oxychloride">>, dose_per_ha_l |-> 7, price_per_l |-> 640] )
    @@ "brinjal" :>
        ( "Phomopsis blight" :> [actives |-> <<"Carbendazim", "Mancozeb">>, dose_per_ha_l |-> 8, price_per_l |-> 550]
        @@ "Bacterial wilt" :> [actives |-> <<"Copper oxychloride">>, dose_per_ha_l |-> 10, price_per_l |-> 640]
        @@ "Little leaf" :> [actives |-> <<"Imidacloprid">>, dose_per_ha_l |-> 3, price_per_l |-> 900]
        @@ "Shoot and fruit borer" :> [actives |-> <<"Emamectin benzoate">>, dose_per_ha_l |-> 2, price_per_l |-> 1200] )
    @@ "capsicum" :>
        ( "Anthracnose" :> [actives |-> <<"Azoxystrobin", "Difenoconazole">>, dose_per_ha_l |-> 5, price_per_l |-> 1100]
        @@ "Phytophthora blight" :> [actives |-> <<"Metalaxyl", "Mancozeb">>, dose_per_ha_l |-> 10, price_per_l |-> 780]
        @@ "Powdery mildew" :> [actives |-> <<"Sulfur">>, dose_per_ha_l |-> 12, price_per_l |-> 350]
        @@ "Bacterial leaf spot" :> [actives |-> <<"Copper hydroxide">>, dose_per_ha_l |-> 8, price_per_l |-> 680] ) )

\* SEVERITY_MULTIPLIER, in tenths
SEVERITY_MULTIPLIER == ( "low" :> 7 @@ "moderate" :> 10 @@ "high" :> 13 )

\* the weather multiplier as a numerator over WeatherDen: x 1.1 for rain, x 1.05 for
\* wind, x 0.95 for heat, each factor applied when its word occurs
WeatherDen == 10 * 20 * 20

weather_multiplier(weather_conditions) ==
    IF weather_conditions = "" THEN WeatherDen
    ELSE LET text == Lower(Chars(weather_conditions))
             rain == IF Contains(text, Chars("rain")) THEN 11 ELSE 10
             wind == IF Contains(text, Chars("wind")) THEN 21 ELSE 20
             hot == IF \/ Contains(text, Chars("hot"))
                       \/ Contains(text, Chars(">35"))
                       \/ Contains(text, Chars("heat"))
                    THEN 19 ELSE 20
         IN  rain * wind * hot

\* max(farm_size_ha, 0.01), in hundredths of a hectare
clamped_farm_size(farm_size_ha) == Max(farm_size_ha * (100 \div FarmScale), 1)

\* compute_pesticide_plan: liters and cost in hundredths (round(x, 2)), the printed
\* weather multiplier in hundredths
compute_pesticide_plan(crop_type, disease, severity, farm_size_ha, weather_conditions) ==
    LET crop_entries == DictGet(CATALOG, Lower(Chars(crop_type)), EmptyDict)
        found == disease \in DOMAIN crop_entries
        actives == IF found THEN crop_entries[disease].actives
                   ELSE <<"General copper fungicide">>
        dose_per_ha_l == IF found THEN crop_entries[disease].dose_per_ha_l ELSE 8
        price_per_l == IF found THEN crop_entries[disease].price_per_l ELSE 600
        severity_multiplier == Get(SEVERITY_MULTIPLIER, severity, 10)
        weather == weather_multiplier(weather_conditions)
        \* dose/10 x severity/10 x weather/WeatherDen x farm/100 litres, times 100
        liters_needed ==
            RoundHalfEven(dose_per_ha_l * severity_multiplier * weather
                              * clamped_farm_size(farm_size_ha),
                          WeatherDen * 100)
        cost == liters_needed * price_per_l
    IN  [recommended_treatment |->
            [primary_pesticides |-> actives,
             dosage_calculation |->
                 [dose_per_hectare |-> dose_per_ha_l,
                  severity_multiplier |-> severity_multiplier,
                  weather_multiplier |-> RoundHalfEven(weather * 100, WeatherDen),
                  farm_size_hectares |-> farm_size_ha,
                  total_amount_needed |-> liters_needed,
                  cost_estimate |-> cost],
             application_guidance |->
                 <<"Spray during calm hours: early morning or late evening",
                   "Ensure full leaf coverage, avoid runoff",
                   "Rotate modes of action to manage resistance",
                   "Follow local regulations and label instructions">>]]

(***************************************************************************)
(* src/main.py: the standalone service and its recommendation generator    *)
(***************************************************************************)
\* DISEASE_DATABASE: dosage_per_hectare as the text the table holds, severity_multiplier
\* in tenths
DISEASE_DATABASE ==
    ( "tomato" :>
        ( "bacterial_spot" :>
            [name |-> "Bacterial Spot",
             pesticides |-> <<"Copper sulfate", "Streptomycin">>,
             dosage_per_hectare |-> "2-3 kg",
             severity_multiplier |-> ("low" :> 5 @@ "medium" :> 10 @@ "high" :> 15),
             application_frequency |-> "7-10 days interval"]
        @@ "early_blight" :>
            [name |-> "Early Blight",
             pesticides |-> <<"Mancozeb", "Chlorothalonil">>,
             dosage_per_hectare |-> "2.5 kg",
             severity_multiplier |-> ("low" :> 6 @@ "medium" :> 10 @@ "high" :> 14),
             application_frequency |-> "10-14 days interval"]
        @@ "late_blight" :>
            [name |-> "Late Blight",
             pesticides |-> <<"Metalaxyl", "Copper hydroxide">>,
             dosage_per_hectare |-> "3 kg",
             severity_multiplier |-> ("low" :> 7 @@ "medium" :> 10 @@ "high" :> 18),
             application_frequency |-> "5-7 days interval"] )
    @@ "brinjal" :>
        ( "bacterial_wilt" :>
            [name |-> "Bacterial Wilt",
             pesticides |-> <<"Streptocycline", "Copper oxychloride">>,
             dosage_per_hectare |-> "2 kg",
             severity_multiplier |-> ("low" :> 5 @@ "medium" :> 10 @@ "high" :> 16),
             application_frequency |-> "10 days interval"]
        @@ "fruit_rot" :>
            [name |-> "Fruit and Shoot Borer",
             pesticides |-> <<"Carbendazim", "Mancozeb">>,
             dosage_per_hectare |-> "2.5 kg",
             severity_multiplier |-> ("low" :> 6 @@ "medium" :> 10 @@ "high" :> 13),
             application_frequency |-> "7-10 days interval"] )
    @@ "capsicum" :>
        ( "anthracnose" :>
            [name |-> "Anthracnose",
             pesticides |-> <<"Benomyl", "Thiophanate-methyl">>,
             dosage_per_hectare |-> "3 kg",
             severity_multiplier |-> ("low" :> 5 @@ "medium" :> 10 @@ "high" :> 14),
             application_frequency |-> "10-14 days interval"]
        @@ "powdery_mildew" :>
            [name |-> "Powdery Mildew",
             pesticides |-> <<"Sulfur", "Trifloxystrobin">>,
             dosage_per_hectare |-> "3.5 kg",
             severity_multiplier |-> ("low" :> 4 @@ "medium" :> 10 @@ "high" :> 12),
             application_frequency |-> "7-10 days interval"] ) )

\* AIImageProcessor.class_names
class_names ==
    <<"healthy", "bacterial_spot", "early_blight", "late_blight",
      "bacterial_wilt", "fruit_rot", "anthracnose", "powdery_mildew">>

DigitValue ==
    ( "0" :> 0 @@ "1" :> 1 @@ "2" :> 2 @@ "3" :> 3 @@ "4" :> 4
      @@ "5" :> 5 @@ "6" :> 6 @@ "7" :> 7 @@ "8" :> 8 @@ "9" :> 9 )

\* str.split()[0]: the characters before the first blank (the texts have no leading blank)
FirstToken(cs) ==
    LET blanks == {i \in 1..Len(cs) : cs[i] = " "}
    IN  IF blanks = {} THEN cs
        ELSE SubSeq(cs, 1, (CHOOSE i \in blanks : \A j \in blanks : i <= j) - 1)

RECURSIVE DigitsValue(_)
DigitsValue(ds) ==
    IF Len(ds) = 0 THEN 0
    ELSE DigitsValue(SubSeq(ds, 1, Len(ds) - 1)) * 10 + DigitValue[ds[Len(ds)]]

AllDigits(ds) == \A i \in 1..Len(ds) : ds[i] \in DOMAIN DigitValue

\* float(text) for plain decimal text: digits with at most one point; anything else (a
\* range such as "2-3") is a ValueError.  The value is in tenths; the table's texts have
\* at most one decimal.
ParseFloat(cs) ==
    LET points == {i \in 1..Len(cs) : cs[i] = "."}
    IN  IF points = {}
        THEN [ok |-> Len(cs) > 0 /\ AllDigits(cs),
              tenths |-> IF AllDigits(cs) THEN DigitsValue(cs) * 10 ELSE 0]
        ELSE IF Cardinality(points) > 1 THEN [ok |-> FALSE, tenths |-> 0]
        ELSE LET i == CHOOSE k \in points : TRUE
                 whole == SubSeq(cs, 1, i - 1)
                 fraction == SubSeq(cs, i + 1, Len(cs))
                 ok == AllDigits(whole) /\ AllDigits(fraction)
                           /\ Len(whole) + Len(fraction) > 0
             IN  [ok |-> ok,
                  tenths |-> IF ok
                             THEN DigitsValue(whole) * 10
                                      + (IF Len(fraction) > 0 THEN DigitValue[fraction[1]] ELSE 0)
                             ELSE 0]

LowerToUpper ==
    [c \in {UpperToLower[u] : u \in DOMAIN UpperToLower} |->
        CHOOSE u \in DOMAIN UpperToLower : UpperToLower[u] = c]

\* str.upper()
Upper(cs) == [i \in 1..Len(cs) |-> IF cs[i] \in DOMAIN LowerToUpper THEN LowerToUpper[cs[i]] ELSE cs[i]]

\* the dict returned when no treatment is recommended
NoTreatment ==
    [status |-> "No treatment required",
     message |-> "Crop appears healthy. Continue regular monitoring.",
     preventive_measures |->
         <<"Maintain proper plant spacing", "Ensure adequate drainage",
           "Regular field sanitation", "Monitor weather conditions">>,
     next_inspection |-> "7 days"]

\* amounts of generate_pesticide_recommendations are in 1/LegacyScale kg: the base dosage
\* in tenths, the severity multiplier in tenths, the farm size in 1/FarmScale hectares,
\* the weather adjustment in tenths
LegacyScale == 10 * 10 * FarmScale * 10

\* generate_pesticide_recommendations: the exception raised to analyze_image ("none" when
\* it returns) and the dict returned.  confidence is in hundredths, printed amounts in
\* hundredths, confidence_level in tenths of a percent.
generate_pesticide_recommendations(detection_result, crop_type, farm_size, weather_conditions) ==
    LET disease == detection_result.disease
        severity == detection_result.severity
        confidence == detection_result.confidence
    IN  IF disease = "healthy" \/ confidence < 30
        THEN [error |-> "none", result |-> NoTreatment]
        ELSE IF crop_type \notin DOMAIN DISEASE_DATABASE
        THEN [error |-> "KeyError", result |-> EmptyDict]
        ELSE IF disease \notin DOMAIN DISEASE_DATABASE[crop_type]
        THEN [error |-> "none", result |-> [error |-> "Disease information not available"]]
        ELSE LET disease_info == DISEASE_DATABASE[crop_type][disease]
                 base_dosage == ParseFloat(FirstToken(Chars(disease_info.dosage_per_hectare)))
             IN  IF ~base_dosage.ok
                 THEN [error |-> "ValueError", result |-> EmptyDict]
                 ELSE IF severity \notin DOMAIN disease_info.severity_multiplier
                 THEN [error |-> "KeyError", result |-> EmptyDict]
                 ELSE LET severity_multiplier == disease_info.severity_multiplier[severity]
                          total_dosage == base_dosage.tenths * severity_multiplier * farm_size
                          weather_lower == IF weather_conditions = "" THEN <<>>
                                           ELSE Lower(Chars(weather_conditions))
                          rain == Contains(weather_lower, Chars("rain"))
                          dry == ~rain /\ Contains(weather_lower, Chars("dry"))
                          weather_adjustment == IF rain THEN 12 ELSE IF dry THEN 9 ELSE 10
                          weather_warnings ==
                              IF rain THEN <<"Increase dosage due to expected rainfall">>
                              ELSE IF dry THEN <<"Reduced dosage due to dry conditions">>
                              ELSE <<>>
                          final_dosage == total_dosage * weather_adjustment
                      IN  [error |-> "none",
                           result |->
                             [disease_detected |-> disease_info.name,
                              confidence_level |-> confidence * 10,
                              severity_assessment |-> Upper(Chars(severity)),
                              recommended_treatment |->
                                [primary_pesticides |-> disease_info.pesticides,
                                 dosage_calculation |->
                                   [base_rate |-> disease_info.dosage_per_hectare,
                                    severity_factor |-> severity_multiplier,
                                    weather_adjustment |-> weather_adjustment,
                                    total_amount_needed |-> Fmt2(final_dosage, LegacyScale),
                                    cost_estimate |-> Fmt2(final_dosage * 120, LegacyScale)],
                                 application_schedule |->
                                   [frequency |-> disease_info.application_frequency,
                                    best_time |-> "Early morning (6-8 AM) or evening (5-7 PM)",
                                    weather_requirements |-> "No rain expected for 4-6 hours"]],
                              application_instructions |->
                                <<"Wear complete protective equipment (PPE)",
                                  "Ensure uniform coverage of affected areas",
                                  "Use appropriate nozzle for fine spray",
                                  "Maintain recommended water volume (400-500L/hectare)",
                                  "Avoid drift to non-target areas">>,
                              safety_precautions |->
                                <<"Keep children and animals away during application",
                                  "Do not contaminate water sources",
                                  "Store unused pesticide in original container",
                                  "Dispose of empty containers properly",
                                  "Follow pre-harvest interval guidelines">>,
                              monitoring_plan |->
                                <<"Check treated areas after 3-4 days",
                                  "Look for improvement in symptoms",
                                  "Reapply if necessary after 7-10 days",
                                  "Document treatment effectiveness">>,
                              weather_considerations |-> weather_warnings]]

(***************************************************************************)
(* src/main.py: the analyze-image handler and its scan history             *)
(***************************************************************************)
\* the columns of table scans as init_db creates it
ScansColumns ==
    {"id", "crop_type", "disease_detected", "confidence", "severity", "farm_size",
     "location", "weather_conditions", "pesticides", "_amount", "cost_estimate",
     "scan_timestamp"}

\* the columns the INSERT of analyze_image names
InsertColumns ==
    {"crop_type", "disease_detected", "confidence", "severity", "farm_size", "location",
     "weather_conditions", "pesticides", "dosage_amount", "cost_estimate",
     "scan_timestamp"}

\* str.startswith, on characters
StartsWith(cs, prefix) == Len(cs) >= Len(prefix) /\ SubSeq(cs, 1, Len(prefix)) = prefix

\* the values the INSERT binds (those the handler computes; None is "None")
scan_row(crop_type, detection_result, recommendations, farm_size, weather_conditions) ==
    LET treatment == Get(recommendations, "recommended_treatment", EmptyDict)
        dosage_calculation == Get(treatment, "dosage_calculation", EmptyDict)
    IN  [crop_type |-> crop_type,
         disease_detected |-> Get(recommendations, "disease_detected", "None"),
         confidence |-> detection_result.confidence,
         severity |-> detection_result.severity,
         farm_size |-> farm_size,
         weather_conditions |-> weather_conditions,
         pesticides |-> Get(treatment, "primary_pesticides", <<>>),
         dosage_amount |-> Get(dosage_calculation, "total_amount_needed", "None"),
         cost_estimate |-> Get(dosage_calculation, "cost_estimate", "None")]

\* cursor.execute(INSERT ...) and conn.commit(): sqlite3 refuses a statement that names a
\* column the table does not have; the handler logs the exception and goes on
insert_scan(table, row) ==
    IF InsertColumns \subseteq ScansColumns
    THEN [error |-> "none", table |-> Append(table, row)]
    ELSE [error |-> "OperationalError", table |-> table]

\* how analyze_image answers: `except Exception as e: raise HTTPException(status_code=500,
\* ...)` takes every exception that leaves the try block, the HTTPExceptions raised
\* inside it included.  raised is that exception ("none" when the return is reached),
\* raised_status the status of an HTTPException raised.
answer(raised, raised_status, steps, db_error) ==
    [status |-> IF raised = "none" THEN 200 ELSE 500, raised |-> raised,
     raised_status |-> raised_status, steps |-> steps, db_error |-> db_error]

\* analyze_image: the answer and the table afterwards.  readable: Image.open accepts the
\* uploaded bytes.
analyze_image(table, content_type, readable, crop_type, detection_result, farm_size, weather_conditions) ==
    IF crop_type \notin DOMAIN DISEASE_DATABASE
    THEN [outcome |-> answer("HTTPException", 400, {}, "none"), table |-> table]
    ELSE IF ~StartsWith(Chars(content_type), Chars("image/"))
    THEN [outcome |-> answer("HTTPException", 400, {}, "none"), table |-> table]
    ELSE IF ~readable
    THEN [outcome |-> answer("UnidentifiedImageError", 0, {}, "none"), table |-> table]
    ELSE LET r == generate_pesticide_recommendations(detection_result, crop_type,
                                                     farm_size, weather_conditions)
         IN  IF r.error # "none"
             THEN [outcome |-> answer(r.error, 0, {"detection", "recommendation"}, "none"),
                   table |-> table]
             ELSE LET saved == insert_scan(table,
                                           scan_row(crop_type, detection_result, r.result,
                                                    farm_size, weather_conditions))
                  IN  [outcome |-> answer("none", 0,
                                          {"detection", "recommendation", "persistence"},
                                          saved.error),
                       table |-> saved.table]

(***************************************************************************)
(* src/backend/main.py: the analyze-image handler, the files it writes     *)
(* under data/uploads and the rows it adds to crop_scans                   *)
(***************************************************************************)
\* datetime.now() is read in ticks of 1/TicksPerSecond second
TicksPerSecond == 2

Requests == 1..MaxRequests

\* file.filename as the clients send it
Filenames == {"leaf.jpg", "field.jpg"}

\* a request that was not received yet
NewRequest ==
    [pc |-> "new", content_type |-> "", filename |-> "", file_path |-> <<>>,
     status |-> 0, raised_status |-> 0, steps |-> {}, image_read |-> 0, scan_id |-> 0]

\* datetime.now().strftime("%Y%m%d_%H%M%S"): the fraction of the second is dropped
strftime(ticks) == ticks \div TicksPerSecond

\* os.path.join(upload_dir, f"{timestamp}_{file.filename}")
upload_path(ticks, filename) == <<strftime(ticks), filename>>

\* analyze_crop_image up to `await file.read()`: the content type is tested, the path is
\* built and open(file_path, "wb") creates or empties the file (content 0).  An
\* HTTPException raised here is taken by `except Exception` and answered with 500.
receive_upload(files, ticks, content_type, filename) ==
    IF ~StartsWith(Chars(content_type), Chars("image/"))
    THEN [request |-> [NewRequest EXCEPT !.pc = "done", !.content_type = content_type,
                                         !.filename = filename, !.status = 500,
                                         !.raised_status = 400],
          files |-> files]
    ELSE LET file_path == upload_path(ticks, filename)
         IN  [request |-> [NewRequest EXCEPT !.pc = "reading",
                                             !.content_type = content_type,
                                             !.filename = filename,
                                             !.file_path = file_path],
              files |-> SetKey(files, file_path, 0)]

\* the scan the detection service reports, the recommendation and the cost computed from
\* it, as the row of crop_scans
scan_record(id, file_path, crop_type, detected, farm_size) ==
    LET rec == get_recommendations(detected.disease, crop_type, detected.severity, "")
        cost == calculate_treatment_cost(rec.recommendations.primary_pesticides,
                                         farm_size, detected.severity, "")
    IN  [id |-> id, crop_type |-> crop_type, disease_detected |-> detected.disease,
         severity_level |-> detected.severity, farm_size |-> farm_size,
         image_path |-> file_path, treatment_cost |-> cost.plan.cost_estimate]

\* analyze_crop_image from buffer.write(content) to the response, which runs without an
\* await that suspends: the request's bytes (content r) are written to its open file, the
\* detection service reads the file at file_path (cv2.imread gives None for bytes it
\* cannot decode and the ValueError is answered with 500), and the scan is committed
store_and_analyze(files, table, r, request, decodable, crop_type, detected, farm_size) ==
    LET written == SetKey(files, request.file_path, r)
        image_read == written[request.file_path]
    IN  IF ~decodable
        THEN [request |-> [request EXCEPT !.pc = "done", !.status = 500,
                                          !.steps = {"detection"},
                                          !.image_read = image_read],
              files |-> written, table |-> table]
        ELSE LET id == Len(table) + 1
             IN  [request |-> [request EXCEPT !.pc = "done", !.status = 200,
                                   !.steps = {"detection", "recommendation", "persistence"},
                                   !.image_read = image_read, !.scan_id = id],
                  files |-> written,
                  table |-> Append(table, scan_record(id, request.file_path, crop_type,
                                                      detected, farm_size))]

(***************************************************************************)
(* Inputs of the explored calls.                                           *)
(***************************************************************************)
\* the tiers the classifier reports, a capitalised spelling, its 'unknown', the legacy names
Severities ==
    {"healthy", "mild", "moderate", "severe", "Severe", "unknown", "low", "medium", "high"}

\* farm sizes in 1/FarmScale hectares, a negative size and zero included
FarmSizes == -1..MaxFarmUnits

Locations ==
    {"", "Punjab", "Punjab, India", "Karnataka, India", "Unknown Location",
     "Some Unlisted City", "Rajasthan", "West Bengal", "Goa", "Udupi, Karnataka",
     "Goa, Kerala", "KERALA"}

\* the lists of at most n names
SeqsUpTo(S, n) == UNION {[1..k -> S] : k \in 0..n}

\* primary lists handed to the cost calculator: catalogued names and one that is not
PesticideLists ==
    SeqsUpTo({"Copper Hydroxide", "Streptomycin", "Unknown Fungicide"}, MaxListLen)

Weathers == {"", "sunny", "rainy", "windy", "Rain and wind", "cloudy", "humid"}

\* every (crop, disease) with a profile, and pairs without one
ProfiledPairs ==
    {<<c, d>> : c \in DOMAIN PesticideData, d \in
        {"Bacterial_spot", "Early_blight", "Late_blight", "Leaf_Mold", "Healthy",
         "Bacterial_wilt", "Cercospora_leaf_spot", "Powdery_mildew", "Anthracnose"}}

CropDiseasePairs ==
    {p \in ProfiledPairs : p[2] \in DOMAIN PesticideData[p[1]]}
        \cup {<<"tomato", "Unknown_disease">>, <<"wheat", "Healthy">>,
              <<"wheat", "Bacterial_spot">>}

RecSeverities == {"healthy", "mild", "moderate", "severe", "unknown"}

\* disease_data as the unit tests build it: no dosage tables, no frequency
MockProfile(primary, alternative) ==
    [primary_pesticides |-> primary, alternative_pesticides |-> alternative,
     application_method |-> "Foliar spray"]

MockNames == {"Copper Hydroxide", "Copper Sulfate", "Streptomycin", "Mancozeb"}

MockProfiles ==
    {MockProfile(p, a) : p \in SeqsUpTo(MockNames, MaxListLen),
                         a \in SeqsUpTo(MockNames, MaxListLen)}

CoreCrops == {"tomato", "Tomato", "wheat"}

CoreDiseases == {"Early blight", "Bacterial spot", "Powdery mildew", "Unknown_disease"}

CoreWeathers == Weathers \cup {"hot and dry"}

\* what the classifier of src/main.py can report: a class name or "unknown", its three
\* severities or "unknown", a confidence in hundredths
LegacyDiseases == {class_names[i] : i \in 1..Len(class_names)} \cup {"unknown"}

LegacySeverities == {"low", "medium", "high", "unknown"}

Confidences == {0, 20, 29, 30, 40, 90}

LegacyWeathers == {"", "rainy", "hot and dry", "cloudy"}

\* disease names handed to the timing and follow-up helpers: those of the explored
\* requests and one that holds both "blight" and "spot"
DiseaseNames == {p[2] : p \in CropDiseasePairs} \cup {"Blight leaf spot"}

\* substance names asked about: every catalogued name and one that is not
SubstanceNames == DOMAIN PricingData \cup {"Unknown Fungicide"}

\* lists compared: three names of different cost, one that costs what Streptomycin
\* costs, one that is not catalogued
CompareNames == {"Copper Hydroxide", "Streptomycin", "Mancozeb", "Cymoxanil", "Unknown Fungicide"}

CompareLists == SeqsUpTo(CompareNames, MaxCompareLen)


\* crops asked about: the three loaded ones and one that is not
DetailCrops == {"tomato", "brinjal", "capsicum", "wheat"}


\* uploads: a content type that is an image's and one that is not
ContentTypes == {"image/jpeg", "text/plain"}

\* crops of analyze-image requests to src/main.py: its three and one it does not know
AnalyzeCrops == DOMAIN DISEASE_DATABASE \cup {"wheat"}

\* what the classifier of src/main.py reports in the explored requests
AnalyzeDetections ==
    {[disease |-> d, severity |-> s, confidence |-> c] :
        d \in LegacyDiseases, s \in {"low", "high", "unknown"}, c \in {20, 90}}

AnalyzeFarmSizes == {0, FarmScale}

AnalyzeWeathers == {"", "rainy"}

\* what the detection service of the backend reports in the explored requests, per crop
BackendScans ==
    {<<"tomato", [disease |-> "Early_blight", severity |-> "mild"]>>,
     <<"tomato", [disease |-> "Healthy", severity |-> "healthy"]>>,
     <<"wheat", [disease |-> "Unknown", severity |-> "unknown"]>>}

(***************************************************************************)
(* The state machine: the services are constructed, then called.           *)
(***************************************************************************)
NoCall == [op |-> "none"]

Init ==
    /\ pesticide_database = PesticideData
    /\ pesticide_prices = PricingData
    /\ regional_multipliers = RegionalData
    /\ call = NoCall
    /\ scans = <<>>
    /\ now = 0
    /\ uploads = EmptyDict
    /\ crop_scans = <<>>
    /\ requests = [r \in Requests |-> NewRequest]

Loaded == UNCHANGED <<pesticide_database, pesticide_prices, regional_multipliers>>

\* a call on the engine touches neither service's files and tables
Untouched == UNCHANGED <<scans, now, uploads, crop_scans, requests>>

\* the caller holds no result: the next call can be made
Idle == call.op = "none"

GetSeverityMultiplier ==
    /\ Idle
    /\ Untouched
    /\ \E severity \in Severities :
        /\ call' = [op |-> "get_severity_multiplier", severity |-> severity,
                    result |-> get_severity_multiplier(severity)]
        /\ Loaded

GetApplicationsNeeded ==
    /\ Idle
    /\ Untouched
    /\ \E severity \in Severities :
        /\ call' = [op |-> "get_applications_needed", severity |-> severity,
                    result |-> get_applications_needed(severity)]
        /\ Loaded

GetRegionalMultiplier ==
    /\ Idle
    /\ Untouched
    /\ \E location \in Locations :
        /\ call' = [op |-> "get_regional_multiplier", location |-> location,
                    key |-> region_key(location),
                    result |-> get_regional_multiplier(location)]
        /\ Loaded

CalculateTreatmentCost ==
    /\ Idle
    /\ Untouched
    /\ \E pesticides \in PesticideLists, farm_size \in FarmSizes,
       severity \in Severities, location \in Locations :
        LET r == calculate_treatment_cost(pesticides, farm_size, severity, location)
        IN  /\ call' = [op |-> "calculate_treatment_cost",
                        pesticides |-> pesticides, farm_size |-> farm_size,
                        severity |-> severity, location |-> location,
                        error |-> r.error,
                        path |-> r.path, caught |-> r.caught,
                        locals |-> r.locals, result |-> r.plan]
            /\ Loaded

AdjustForSeverity ==
    /\ Idle
    /\ Untouched
    /\ \E disease_data \in MockProfiles, severity \in RecSeverities :
        /\ call' = [op |-> "adjust_for_severity", disease_data |-> disease_data,
                    severity |-> severity,
                    result |-> adjust_for_severity(disease_data, severity)]
        /\ Loaded

GetRecommendations ==
    /\ Idle
    /\ Untouched
    /\ \E pair \in CropDiseasePairs, severity \in RecSeverities, weather \in Weathers :
        LET r == get_recommendations(pair[2], pair[1], severity, weather)
        IN  /\ call' = [op |-> "get_recommendations", disease |-> pair[2],
                        crop_type |-> pair[1], severity |-> severity,
                        weather_conditions |-> weather,
                        error |-> r.error, path |-> r.path, result |-> r.recommendations]
            /\ pesticide_database' =
                   database_after_get_recommendations(pair[2], pair[1], severity, weather)
            /\ UNCHANGED <<pesticide_prices, regional_multipliers>>

ComputePesticidePlan ==
    /\ Idle
    /\ Untouched
    /\ \E crop_type \in CoreCrops, disease \in CoreDiseases, severity \in Severities,
          farm_size_ha \in FarmSizes, weather \in CoreWeathers :
        /\ call' = [op |-> "compute_pesticide_plan", crop_type |-> crop_type,
                    disease |-> disease, severity |-> severity,
                    farm_size |-> farm_size_ha, weather_conditions |-> weather,
                    error |-> "none", path |-> "computed",
                    result |-> compute_pesticide_plan(crop_type, disease, severity,
                                                      farm_size_ha, weather)]
        /\ Loaded

\* analyze_image of src/main.py, after the crop check and the classifier
GeneratePesticideRecommendations ==
    /\ Idle
    /\ Untouched
    /\ \E crop_type \in DOMAIN DISEASE_DATABASE, disease \in LegacyDiseases,
          severity \in LegacySeverities, confidence \in Confidences,
          farm_size \in FarmSizes, weather \in LegacyWeathers :
        LET detection_result ==
                [disease |-> disease, severity |-> severity, confidence |-> confidence]
            r == generate_pesticide_recommendations(detection_result, crop_type,
                                                    farm_size, weather)
        IN  /\ call' = [op |-> "generate_pesticide_recommendations",
                        detection_result |-> detection_result, crop_type |-> crop_type,
                        farm_size |-> farm_size, weather_conditions |-> weather,
                        error |-> r.error, result |-> r.result]
            /\ Loaded

GetFollowUpSchedule ==
    /\ Idle
    /\ Untouched
    /\ \E disease \in DiseaseNames, severity \in RecSeverities :
        /\ call' = [op |-> "get_follow_up_schedule", disease |-> disease,
                    severity |-> severity,
                    result |-> get_follow_up_schedule(disease, severity)]
        /\ Loaded

GetTimingRecommendations ==
    /\ Idle
    /\ Untouched
    /\ \E disease \in DiseaseNames, severity \in RecSeverities, weather \in Weathers :
        /\ call' = [op |-> "get_timing_recommendations", disease |-> disease,
                    severity |-> severity, weather |-> weather,
                    result |-> get_timing_recommendations(disease, severity, weather)]
        /\ Loaded

GetEffectivenessRating ==
    /\ Idle
    /\ Untouched
    /\ \E pesticide \in SubstanceNames :
        /\ call' = [op |-> "get_effectiveness_rating", pesticide |-> pesticide,
                    result |-> get_effectiveness_rating(pesticide)]
        /\ Loaded

ComparePesticideCosts ==
    /\ Idle
    /\ Untouched
    /\ \E pesticides \in CompareLists, farm_size \in FarmSizes :
        LET r == compare_pesticide_costs(pesticides, farm_size)
        IN  /\ call' = [op |-> "compare_pesticide_costs", pesticides |-> pesticides,
                        farm_size |-> farm_size, caught |-> r.caught,
                        result |-> r.comparisons]
            /\ Loaded

GetPesticideDetails ==
    /\ Idle
    /\ Untouched
    /\ \E pesticide_name \in SubstanceNames, crop_type \in DetailCrops :
        /\ call' = [op |-> "get_pesticide_details", pesticide_name |-> pesticide_name,
                    crop_type |-> crop_type,
                    result |-> get_pesticide_details(pesticide_name, crop_type)]
        /\ Loaded

\* src/main.py: POST /api/analyze-image, from the request to the response
AnalyzeImage ==
    /\ Idle
    /\ \E content_type \in ContentTypes, readable \in BOOLEAN, crop_type \in AnalyzeCrops,
          detection_result \in AnalyzeDetections, farm_size \in AnalyzeFarmSizes,
          weather \in AnalyzeWeathers :
        LET r == analyze_image(scans, content_type, readable, crop_type, detection_result,
                               farm_size, weather)
        IN  /\ call' = [op |-> "analyze_image", content_type |-> content_type,
                        readable |-> readable, crop_type |-> crop_type,
                        detection_result |-> detection_result, farm_size |-> farm_size,
                        weather_conditions |-> weather] @@ r.outcome
            /\ scans' = r.table
    /\ Loaded
    /\ UNCHANGED <<now, uploads, crop_scans, requests>>

\* src/backend/main.py: POST /api/analyze-image up to `await file.read()`
ReceiveUpload ==
    /\ \E r \in Requests, content_type \in ContentTypes, filename \in Filenames :
        /\ requests[r].pc = "new"
        /\ LET got == receive_upload(uploads, now, content_type, filename)
           IN  /\ requests' = [requests EXCEPT ![r] = got.request]
               /\ uploads' = got.files
    /\ Loaded
    /\ UNCHANGED <<call, scans, now, crop_scans>>

\* src/backend/main.py: the handler resumes once the upload was read
StoreAndAnalyze ==
    /\ \E r \in Requests, decodable \in BOOLEAN, scan \in BackendScans :
        /\ requests[r].pc = "reading"
        /\ LET done == store_and_analyze(uploads, crop_scans, r, requests[r], decodable,
                                         scan[1], scan[2], FarmScale)
           IN  /\ requests' = [requests EXCEPT ![r] = done.request]
               /\ uploads' = done.files
               /\ crop_scans' = done.table
               /\ pesticide_database' =
                      IF decodable
                      THEN database_after_get_recommendations(scan[2].disease, scan[1],
                                                              scan[2].severity, "")
                      ELSE pesticide_database
    /\ UNCHANGED <<pesticide_prices, regional_multipliers, call, scans, now>>

\* time passes at the backend
Tick ==
    /\ now < MaxClock
    /\ now' = now + 1
    /\ Loaded
    /\ UNCHANGED <<call, scans, uploads, crop_scans, requests>>

\* the caller takes the result; the services keep nothing of the call
Return ==
    /\ call.op # "none"
    /\ Untouched
    /\ call' = NoCall
    /\ Loaded

Next ==
    \/ GetSeverityMultiplier
    \/ GetApplicationsNeeded
    \/ GetRegionalMultiplier
    \/ CalculateTreatmentCost
    \/ AdjustForSeverity
    \/ GetRecommendations
    \/ ComputePesticidePlan
    \/ GeneratePesticideRecommendations
    \/ GetFollowUpSchedule
    \/ GetTimingRecommendations
    \/ GetEffectivenessRating
    \/ ComparePesticideCosts
    \/ GetPesticideDetails

    \/ Return

Spec == Init /\ [][Next]_vars

\* src/main.py serving analyze-image requests
LegacyNext ==
    \/ AnalyzeImage
    \/ Return

LegacyService == Init /\ [][LegacyNext]_vars

\* src/backend/main.py serving analyze-image requests, which interleave at the await
BackendNext ==
    \/ ReceiveUpload
    \/ StoreAndAnalyze
    \/ Tick

BackendService == Init /\ [][BackendNext]_vars

(***************************************************************************)
(* Properties.                                                             *)
(***************************************************************************)
IsCost == call.op = "calculate_treatment_cost"
IsRec == call.op = "get_recommendations"
IsAdjust == call.op = "adjust_for_severity"
IsRegion == call.op = "get_regional_multiplier"
IsCore == call.op = "compute_pesticide_plan"

\* the severity tiers in increasing order
Tiers == <<"healthy", "mild", "moderate", "severe">>

\* the multiplier (in tenths) and the application count documented for each tier
TierMultiplier == ( "healthy" :> 0 @@ "mild" :> 8 @@ "moderate" :> 10 @@ "severe" :> 13 )
TierApplications == ( "healthy" :> 0 @@ "mild" :> 2 @@ "moderate" :> 3 @@ "severe" :> 4 )

IsTier(severity) == \E i \in 1..Len(Tiers) : Tiers[i] = severity

\* C1: get_severity_multiplier and get_applications_needed answer every severity
\* with a number; a tier gets Healthy 0.0/0, Mild 0.8/2, Moderate 1.0/3, Severe 1.3/4;
\* both are non-decreasing along Healthy < Mild < Moderate < Severe.
C1_SeverityTablesTotalMonotone ==
    /\ call.op = "get_severity_multiplier" =>
           /\ call.result \in Nat
           /\ IsTier(call.severity) => call.result = TierMultiplier[call.severity]
    /\ call.op = "get_applications_needed" =>
           /\ call.result \in Nat
           /\ IsTier(call.severity) => call.result = TierApplications[call.severity]
    /\ \A i \in 1..(Len(Tiers) - 1) :
           /\ get_severity_multiplier(Tiers[i]) <= get_severity_multiplier(Tiers[i + 1])
           /\ get_applications_needed(Tiers[i]) <= get_applications_needed(Tiers[i + 1])

C1_Witness ==
    /\ call.op = "get_applications_needed"
    /\ call.severity = "severe"
    /\ call.result = 4

IsHealthySeverity(severity) == Lower(Chars(severity)) = Chars("healthy")

\* C2: a cost calculation with severity Healthy returns total amount 0, total cost 0
\* and 0 applications, whatever the substance list, farm size and location, and gets
\* there without the division by the application count being attempted.
C2_HealthyIsZeroPlan ==
    (IsCost /\ call.farm_size > 0 /\ IsHealthySeverity(call.severity)) =>
        /\ call.result.total_amount_needed = 0
        /\ call.result.cost_estimate = 0
        /\ call.result.applications_needed = 0
        /\ call.caught = "none"

\* the first pesticide of the call is in the price catalogue
Catalogued == Len(call.pesticides) > 0 /\ call.pesticides[1] \in DOMAIN pesticide_prices

\* the call of the worked example: Copper Hydroxide, Moderate, 2.0 ha, "Punjab"
IsExample ==
    /\ IsCost
    /\ call.pesticides = <<"Copper Hydroxide">>
    /\ call.farm_size = 2 * FarmScale
    /\ call.severity = "moderate"
    /\ call.location = "Punjab"

C4_NonPositiveFarmRejected ==
    ((IsCost \/ IsCore) /\ call.farm_size <= 0) =>
        /\ call.error = "ValidationError"
        /\ call.path = "rejected"

Abs(x) == IF x < 0 THEN 0 - x ELSE x

\* C5: with the substance list, severity and location fixed, the call at twice the
\* farm size takes the same path and computes twice the total amount and twice the
\* total cost, on the normal path and on the fallback plan; the printed fields, being
\* rounded to two decimals, double to within one unit of the last digit.
C5_LinearInFarmSize ==
    IsCost =>
        LET twice == calculate_treatment_cost(call.pesticides, 2 * call.farm_size,
                                              call.severity, call.location)
        IN  /\ twice.path = call.path
            /\ twice.locals.amount_scale = call.locals.amount_scale
            /\ twice.locals.cost_scale = call.locals.cost_scale
            /\ twice.locals.total_amount_kg = 2 * call.locals.total_amount_kg
            /\ twice.locals.total_cost = 2 * call.locals.total_cost
            /\ Abs(twice.plan.total_amount_needed - 2 * call.result.total_amount_needed) <= 1
            /\ Abs(twice.plan.cost_estimate - 2 * call.result.cost_estimate) <= 1

C5_Witness ==
    /\ IsCost
    /\ call.path = "normal"
    /\ call.farm_size = 2
    /\ call.locals.total_cost > 0

\* C6: with severity Healthy the recommendation has empty primary and alternative
\* lists and prevention-only guidance, for every crop and every disease name.
C6_HealthySeverityIsPreventionOnly ==
    (IsRec /\ call.severity = "healthy") =>
        /\ Len(call.result.primary_pesticides) = 0
        /\ Len(call.result.alternative_pesticides) = 0
        /\ call.result.application_method = "Preventive measures only"

\* the names of primary followed by alternative that contain "copper", in order
CopperMatches(disease_data) ==
    SelectSeq(disease_data.primary_pesticides \o disease_data.alternative_pesticides,
              LAMBDA p : Contains(Lower(Chars(p)), Chars("copper")))

\* the disease_data a call adjusted: the argument, or the profile looked up
AdjustedProfile ==
    IF IsAdjust THEN call.disease_data
    ELSE pesticide_database[call.crop_type][call.disease]

\* the call ran adjust_for_severity on a disease profile
Adjusted == IsAdjust \/ (IsRec /\ call.path = "profile")

\* C7 as stated: for severity Mild the primary list becomes the first two copper
\* names of primary followed by alternative when there is one, and is unchanged
\* otherwise, for every primary/alternative pair, an empty alternative list included.
C7_MildPrefersCopperAlways ==
    (Adjusted /\ call.severity = "mild") =>
        call.result.primary_pesticides =
            IF Len(CopperMatches(AdjustedProfile)) > 0
            THEN FirstTwo(CopperMatches(AdjustedProfile))
            ELSE AdjustedProfile.primary_pesticides

\* C7, amended: for severity Mild, if the alternative list is not empty and a name of
\* primary followed by alternative contains "copper" (case-insensitive), the primary
\* list becomes the first at most two such names in that order; otherwise (no such
\* name, or an empty alternative list) the primary list is unchanged.  Primary
\* [Streptomycin, Mancozeb], alternative [Copper Hydroxide] gives [Copper Hydroxide].
C7_MildPrefersCopper ==
    /\ (Adjusted /\ call.severity = "mild") =>
           /\ call.result.primary_pesticides =
                  IF /\ Len(AdjustedProfile.alternative_pesticides) > 0
                     /\ Len(CopperMatches(AdjustedProfile)) > 0
                  THEN FirstTwo(CopperMatches(AdjustedProfile))
                  ELSE AdjustedProfile.primary_pesticides
           /\ call.result.alternative_pesticides = AdjustedProfile.alternative_pesticides
    /\ ( /\ IsAdjust
         /\ call.severity = "mild"
         /\ call.disease_data.primary_pesticides = <<"Streptomycin", "Mancozeb">>
         /\ call.disease_data.alternative_pesticides = <<"Copper Hydroxide">> ) =>
           call.result.primary_pesticides = <<"Copper Hydroxide">>

C7_Witness ==
    /\ IsAdjust
    /\ call.severity = "mild"
    /\ call.disease_data.primary_pesticides = <<"Mancozeb", "Copper Sulfate">>
    /\ call.disease_data.alternative_pesticides = <<"Copper Hydroxide", "Copper Sulfate">>
    /\ call.result.primary_pesticides = <<"Copper Sulfate", "Copper Hydroxide">>

\* the entry of a dict under a key, or "absent"
Entry(d, k) == IF k \in DOMAIN d THEN d[k] ELSE "absent"

\* C8: adjust_for_severity appends " (combination treatment recommended)" to the
\* application method and sets the frequency to the intensified interval exactly when
\* the severity is Severe and the primary list has more than one entry; otherwise
\* method and frequency are those of the disease profile.
C8_SevereCombination ==
    Adjusted =>
        IF call.severity = "severe" /\ Len(AdjustedProfile.primary_pesticides) > 1
        THEN /\ call.result.application_method =
                    AdjustedProfile.application_method
                        \o " (combination treatment recommended)"
             /\ call.result.application_frequency = "Every 5-7 days until controlled"
        ELSE /\ call.result.application_method = AdjustedProfile.application_method
             /\ Entry(call.result, "application_frequency") =
                    Entry(AdjustedProfile, "application_frequency")

C8_Witness ==
    /\ IsRec
    /\ call.severity = "severe"
    /\ call.crop_type = "tomato"
    /\ call.disease = "Late_blight"
    /\ call.result.application_method = "Foliar spray (combination treatment recommended)"
    /\ call.result.application_frequency = "Every 5-7 days until controlled"

\* the region buckets with keyword lists, in the order they are tested
Buckets == <<"north", "south", "east", "west">>

BucketKeywords ==
    ( "north" :> NorthKeywords @@ "south" :> SouthKeywords
      @@ "east" :> EastKeywords @@ "west" :> WestKeywords )

\* the lower-cased location contains a keyword of the bucket
Matches(location, bucket) ==
    \E i \in 1..Len(BucketKeywords[bucket]) :
        Contains(Lower(Chars(location)), Chars(BucketKeywords[bucket][i]))

BucketMultiplier == ( "north" :> 100 @@ "south" :> 110 @@ "east" :> 95 @@ "west" :> 105 )

\* C10: a non-empty location resolves to the first bucket, in the order North, South,
\* East, West, one of whose keywords the lower-cased text contains, and gets that
\* bucket's multiplier (North 1.0, South 1.1, East 0.95, West 1.05).
C10_FirstMatchingBucketWins ==
    (IsRegion /\ call.location # "") =>
        \A i \in 1..Len(Buckets) :
            ( /\ Matches(call.location, Buckets[i])
              /\ \A j \in 1..(i - 1) : ~Matches(call.location, Buckets[j]) )
                => (call.key = Buckets[i] /\ call.result = BucketMultiplier[Buckets[i]])

C10_Witness ==
    /\ IsRegion
    /\ call.location = "Goa, Kerala"
    /\ Matches(call.location, "south")
    /\ Matches(call.location, "west")
    /\ call.key = "south"
    /\ call.result = 110

\* the rule of the weather advisory a text falls under: the first that matches, in the
\* order rain / hot / wind, on the lower-cased text
FirstRule(weather) ==
    LET text == Lower(Chars(weather))
    IN  IF weather = "" THEN "none"
        ELSE IF AnyIn(<<"rain", "wet", "humid">>, text) THEN "rain"
        ELSE IF AnyIn(<<"hot", "dry", "sunny">>, text) THEN "hot"
        ELSE IF AnyIn(<<"wind">>, text) THEN "wind"
        ELSE "none"

RuleNote == ( "rain" :> RainNote @@ "hot" :> HotNote @@ "wind" :> WindNote @@ "none" :> "absent" )

\* the dosage multiplier documented for each rule, in hundredths
RuleMultiplier == ( "rain" :> 110 @@ "hot" :> 95 @@ "wind" :> 105 @@ "none" :> 100 )

\* the note of a profile-based recommendation is the note of the first matching rule
NoteFollowsFirstRule ==
    (IsRec /\ call.path = "profile") =>
        Entry(call.result, "weather_note") = RuleNote[FirstRule(call.weather_conditions)]

PrintedWeatherMultiplier ==
    call.result.recommended_treatment.dosage_calculation.weather_multiplier

Factor(weather, words, num, den) ==
    IF weather # "" /\ AnyIn(words, Lower(Chars(weather))) THEN <<num, den>> ELSE <<1, 1>>

NoProfile ==
    \/ call.crop_type \notin DOMAIN pesticide_database
    \/ call.disease \notin DOMAIN pesticide_database[call.crop_type]

\* C12: a request for a disease (or crop) without a profile returns the engine-wide
\* default profile: two primary substances, the generic prevention tips and the
\* application method "Foliar spray"; it never raises.
C12_MissingProfileGetsDefault ==
    (IsRec /\ NoProfile) =>
        /\ call.error = "none"
        /\ Entry(call.result, "application_method") = "Foliar spray"
        /\ Entry(call.result, "primary_pesticides") = <<"Copper Hydroxide", "Mancozeb">>
        /\ Len(call.result.primary_pesticides) = 2
        /\ Entry(call.result, "prevention_tips") =
               <<"Regular field monitoring", "Maintain plant hygiene",
                 "Proper irrigation management", "Use disease-free planting material">>

C12_Witness ==
    /\ IsRec
    /\ call.crop_type = "tomato"
    /\ call.disease = "Unknown_disease"
    /\ call.severity = "severe"
    /\ call.result.application_method = "Foliar spray"

\* C13: when the primary list is empty or its first substance is not in the price
\* catalog, the cost calculator returns the default plan of the fallback substance
\* Copper Hydroxide at the given farm size: amount = 2.5 x farm size, cost = amount x 450,
\* 3 applications; it does not fail.  (Printed fields are in hundredths, the farm size in
\* 1/FarmScale hectares.)
C13_MissingSubstanceGetsDefaultPlan ==
    (IsCost /\ ~Catalogued) =>
        /\ call.error = "none"
        /\ call.result.pesticide_name = "Copper Hydroxide"
        /\ call.result.applications_needed = 3
        /\ call.result.total_amount_needed * FarmScale = 250 * call.farm_size
        /\ call.result.cost_estimate * FarmScale = 250 * call.farm_size * 450

C13_Witness ==
    /\ IsCost
    /\ call.pesticides = <<"Unknown Fungicide", "Copper Hydroxide">>
    /\ call.farm_size = 4
    /\ call.severity = "severe"
    /\ call.location = "Karnataka, India"
    /\ call.result.cost_estimate = 225000

\* the fields of a treatment plan and of a recommendation
PlanFields ==
    {"pesticide_name", "amount_per_hectare", "total_amount_needed", "cost_per_liter",
     "cost_estimate", "water_needed", "applications_needed", "cost_per_application",
     "potential_savings", "reduction_percentage", "environmental_benefit",
     "application_instructions", "cost_breakdown"}

RecommendationFields ==
    {"primary_pesticides", "alternative_pesticides", "application_method",
     "prevention_tips", "timing", "follow_up_schedule"}

\* C14: neither get_recommendations nor calculate_treatment_cost raises to its caller:
\* for every crop, disease, severity (unrecognised strings and the Healthy tier included),
\* weather text, location text and substance list the call returns a plan, or the
\* documented default plan.
C14_NeverRaises ==
    /\ IsCost =>
           /\ call.error = "none"
           /\ call.path \in {"normal", "default"}
           /\ DOMAIN call.result = PlanFields
           /\ call.caught # "none" =>
                  call.result = get_default_cost_calculation(call.farm_size)
    /\ IsRec =>
           /\ call.error = "none"
           /\ call.path \in {"profile", "default"}
           /\ RecommendationFields \subseteq DOMAIN call.result

\* the Healthy tier with a catalogued substance: the division by zero applications is
\* caught and answered with the default plan
C14_Witness ==
    /\ IsCost
    /\ call.pesticides = <<"Streptomycin">>
    /\ call.severity = "healthy"
    /\ call.caught = "ZeroDivisionError"
    /\ call.error = "none"
    /\ call.result.pesticide_name = "Copper Hydroxide"

IsGen == call.op = "generate_pesticide_recommendations"

\* the substances, dosage and cost of a dict generate_pesticide_recommendations returned
Treatment(r) ==
    IF r.error # "none" THEN <<"raised", r.error>>
    ELSE IF "recommended_treatment" \in DOMAIN r.result
    THEN <<r.result.recommended_treatment.primary_pesticides,
           r.result.recommended_treatment.dosage_calculation.total_amount_needed,
           r.result.recommended_treatment.dosage_calculation.cost_estimate>>
    ELSE <<"no treatment">>

\* C15: the treatment plan does not depend on the classifier's confidence: requests that
\* agree on crop, disease, severity, farm size and weather but differ in confidence
\* receive the same substances, dosage and cost.
C15_ConfidenceIndependent ==
    (IsGen /\ call.farm_size > 0 /\ call.error = "none") =>
        \A confidence \in Confidences :
            LET other == generate_pesticide_recommendations(
                             [call.detection_result EXCEPT !.confidence = confidence],
                             call.crop_type, call.farm_size, call.weather_conditions)
            IN  other.error = "none" =>
                    Treatment(other) = Treatment([error |-> call.error, result |-> call.result])

\* what a service that has just loaded its data answers to a recommendation request
FreshRecommendations(disease, crop_type, severity, weather_conditions) ==
    LET disease_data == Get(Get(PesticideData, crop_type, EmptyDict), disease, EmptyDict)
    IN  IF DOMAIN disease_data = {} THEN get_default_recommendations(crop_type)
        ELSE SetKey(SetKey(adjust_for_weather(adjust_for_severity(disease_data, severity),
                                              weather_conditions),
                           "timing",
                           get_timing_recommendations(disease, severity, weather_conditions)),
                    "follow_up_schedule", get_follow_up_schedule(disease, severity))

C17_ReferenceDataUnchanged ==
    /\ pesticide_database = PesticideData
    /\ pesticide_prices = PricingData
    /\ regional_multipliers = RegionalData

\* a Severe request was answered with the combination text and a weather note, and the
\* stored profile has neither
C17_Witness ==
    /\ IsRec
    /\ call.path = "profile"
    /\ call.severity = "severe"
    /\ call.weather_conditions = "rainy"
    /\ call.result.application_method
           # pesticide_database[call.crop_type][call.disease].application_method
    /\ "weather_note" \in DOMAIN call.result
    /\ "weather_note" \notin DOMAIN pesticide_database[call.crop_type][call.disease]

\* C18: the cost breakdown of every plan satisfies: substance cost = total cost;
\* labor = applications x 500; fuel = applications x 200; equipment = applications x 100;
\* total treatment cost = substance cost + labor + fuel + equipment (amounts in hundredths
\* of a rupee).
C18_CostBreakdown ==
    IsCost =>
        LET breakdown == call.result.cost_breakdown
            applications == call.result.applications_needed
        IN  /\ breakdown.pesticide_cost = call.result.cost_estimate
            /\ breakdown.applications = applications
            /\ breakdown.additional_costs.labor = applications * 500 * 100
            /\ breakdown.additional_costs.fuel = applications * 200 * 100
            /\ breakdown.additional_costs.equipment = applications * 100 * 100
            /\ breakdown.total_treatment_cost =
                   breakdown.pesticide_cost + breakdown.additional_costs.labor
                       + breakdown.additional_costs.fuel
                       + breakdown.additional_costs.equipment

\* Streptomycin, Severe, 2.0 ha, South: 0.5 x 1.3 x 2 = 1.3 kg at 1320 = 1716, plus
\* 4 applications x 800
C18_Witness ==
    /\ IsCost
    /\ call.path = "normal"
    /\ call.pesticides = <<"Streptomycin">>
    /\ call.severity = "severe"
    /\ call.farm_size = 4
    /\ call.location = "Karnataka, India"
    /\ call.result.cost_breakdown.pesticide_cost = 171600
    /\ call.result.cost_breakdown.total_treatment_cost = 491600

\* C19: every plan the cost calculator returns uses the fixed overuse baseline 1.5:
\* potential savings = total cost x 0.5, substance saved = total amount x 0.5, and the
\* reduction percentage is (1.5 - 1) / 1.5 x 100, 33.3 to one decimal.
C19_OveruseBaseline ==
    (IsCost /\ call.farm_size > 0) =>
        /\ call.result.potential_savings =
               Fmt2(call.locals.total_cost * 5, call.locals.cost_scale * 10)
        /\ call.result.environmental_benefit =
               Fmt2(call.locals.total_amount_kg * 5, call.locals.amount_scale * 10)
        /\ call.result.reduction_percentage = 333

\* C20: quantity and cost are computed from the first entry of the primary list only:
\* calls whose lists share the first entry and differ in the remaining entries (with equal
\* farm size, severity and location) return the same plan.
C20_FirstEntryOnly ==
    (IsCost /\ Len(call.pesticides) > 0) =>
        \A others \in PesticideLists :
            (Len(others) > 0 /\ others[1] = call.pesticides[1]) =>
                calculate_treatment_cost(others, call.farm_size, call.severity,
                                         call.location).plan = call.result

C20_Witness ==
    /\ IsCost
    /\ call.path = "normal"
    /\ call.pesticides = <<"Copper Hydroxide", "Streptomycin">>
    /\ call.result.pesticide_name = "Copper Hydroxide"
    /\ <<"Copper Hydroxide">> \in PesticideLists

IsSchedule == call.op = "get_follow_up_schedule"

\* C21: the follow-up schedule is a function of the severity tier alone, one of the four
\* fixed schedules: severity Healthy yields the Healthy schedule for every disease name,
\* and calls with the same severity and different disease names yield the same schedule.
C21_ScheduleBySeverityAlone ==
    IsSchedule =>
        /\ call.result \in {SevereSchedule, ModerateSchedule, MildSchedule, HealthySchedule}
        /\ IsHealthySeverity(call.severity) => call.result = HealthySchedule
        /\ \A disease \in DiseaseNames :
               get_follow_up_schedule(disease, call.severity) = call.result

IsTiming == call.op = "get_timing_recommendations"

HasWord(text, word) == Contains(Lower(Chars(text)), Chars(word))

\* C22: get_timing_recommendations returns, in order, two severity entries (immediate /
\* every 5-7 days for Severe, first-symptom / regular schedule otherwise), two weather
\* entries (the rain-aware ones exactly when the weather text contains "rain",
\* case-insensitively, else the morning/evening window) and at most one disease hint (the
\* preventive hint when the disease name contains "blight", otherwise the interval hint
\* when it contains "spot"); the result is never empty.
C22_TimingEntries ==
    IsTiming =>
        LET blight == HasWord(call.disease, "blight")
            spot == HasWord(call.disease, "spot")
        IN  /\ Len(call.result) = 4 + (IF blight \/ spot THEN 1 ELSE 0)
            /\ SubSeq(call.result, 1, 2) =
                   (IF call.severity = "severe"
                    THEN <<"Apply immediately upon detection",
                           "Repeat application every 5-7 days">>
                    ELSE <<"Apply at first sign of symptoms",
                           "Follow regular spray schedule">>)
            /\ SubSeq(call.result, 3, 4) =
                   (IF call.weather # "" /\ HasWord(call.weather, "rain")
                    THEN <<"Apply after rain stops and leaves dry",
                           "Check weather forecast for 24-hour rain-free period">>
                    ELSE <<"Best application time: Early morning (6-10 AM) or evening (4-7 PM)",
                           "Avoid application during peak sun hours">>)
            /\ blight =>
                   call.result[5] = "Apply preventively during favorable disease conditions"
            /\ (~blight /\ spot) =>
                   call.result[5] = "Apply at 7-10 day intervals during disease season"

C22_Witness ==
    /\ IsTiming
    /\ call.disease = "Early_blight"
    /\ call.severity = "severe"
    /\ call.weather = "Rain and wind"
    /\ Len(call.result) = 5
    /\ call.result[3] = "Apply after rain stops and leaves dry"

\* the tier each legacy severity name stands for
LegacyTier == ( "low" :> "mild" @@ "medium" :> "moderate" @@ "high" :> "severe" )

IsLegacy(severity) == severity \in DOMAIN LegacyTier

\* C23: the legacy severity names low, medium and high are accepted and mapped onto the
\* tier scale: each yields the multiplier and the application count of its tier (low as
\* Mild, medium as Moderate, high as Severe), not the unrecognised-severity default.
C23_LegacySeveritiesMapped ==
    /\ (call.op = "get_severity_multiplier" /\ IsLegacy(call.severity)) =>
           call.result = TierMultiplier[LegacyTier[call.severity]]
    /\ (call.op = "get_applications_needed" /\ IsLegacy(call.severity)) =>
           call.result = TierApplications[LegacyTier[call.severity]]
    /\ (IsCore /\ IsLegacy(call.severity)) =>
           call.result.recommended_treatment.dosage_calculation.severity_multiplier
               = TierMultiplier[LegacyTier[call.severity]]

AllCatalogued(names) == \A i \in 1..Len(names) : names[i] \in DOMAIN pesticide_prices

ListsCatalogued(profile) ==
    /\ AllCatalogued(Get(profile, "primary_pesticides", <<>>))
    /\ AllCatalogued(Get(profile, "alternative_pesticides", <<>>))

\* C24: every substance name in a primary or alternative list of any disease profile, and
\* both substances of the default profile, has a record in the cost calculator's price
\* catalog, so no recommendation returned reaches the missing-substance fallback.
C24_EverySubstanceCatalogued ==
    /\ \A crop \in DOMAIN pesticide_database :
           \A disease \in DOMAIN pesticide_database[crop] :
               ListsCatalogued(pesticide_database[crop][disease])
    /\ Len(get_default_recommendations("wheat").primary_pesticides) = 2
    /\ ListsCatalogued(get_default_recommendations("wheat"))
    /\ IsRec =>
           /\ ListsCatalogued(call.result)
           /\ Len(call.result.primary_pesticides) > 0 =>
                  calculate_treatment_cost(call.result.primary_pesticides, FarmScale,
                                           call.severity, "").locals.pesticide
                      = call.result.primary_pesticides[1]
                  \/ get_applications_needed(call.severity) = 0

C24_Witness ==
    /\ IsRec
    /\ call.path = "default"
    /\ call.severity = "moderate"
    /\ call.result.primary_pesticides[2] = "Mancozeb"
    /\ "Mancozeb" \in DOMAIN pesticide_prices

\* the ordinal scale of effectiveness ranks, lowest first
RankScale == <<"Low", "Medium-Low", "Medium", "Medium-High", "High">>

IsRank(r) == \E i \in 1..Len(RankScale) : RankScale[i] = r

\* C25: the effectiveness rank returned for any substance name is a member of the scale
\* Low < Medium-Low < Medium < Medium-High < High, and a name with no recorded rank gets
\* Medium.
C25_RankOnScale ==
    call.op = "get_effectiveness_rating" =>
        /\ IsRank(call.result)
        /\ call.pesticide \notin DOMAIN EffectivenessRatings => call.result = "Medium"

IsCompare == call.op = "compare_pesticide_costs"

Occurrences(names, n) == Cardinality({i \in 1..Len(names) : names[i] = n})

\* C27: for a positive farm size compare_pesticide_costs returns one entry per catalogued
\* input substance (so exactly one per input when all are catalogued), each with
\* pesticide, cost and effectiveness_rating, ordered by non-decreasing cost; substances
\* not in the catalog are omitted.
C27_ComparisonSorted ==
    (IsCompare /\ call.farm_size > 0) =>
        /\ AllCatalogued(call.pesticides) => Len(call.result) = Len(call.pesticides)
        /\ \A i \in 1..Len(call.result) :
               {"pesticide", "cost", "effectiveness_rating"} \subseteq DOMAIN call.result[i]
        /\ \A n \in CompareNames :
               Occurrences([i \in 1..Len(call.result) |-> call.result[i].pesticide], n)
                   = IF n \in DOMAIN pesticide_prices
                     THEN Occurrences(call.pesticides, n) ELSE 0
        /\ \A i \in 1..(Len(call.result) - 1) : call.result[i].cost <= call.result[i + 1].cost

\* the example of the unit test at 2.0 ha: 1200.00, 2250.00, 2600.00
C27_Witness ==
    /\ IsCompare
    /\ call.pesticides = <<"Copper Hydroxide", "Mancozeb", "Streptomycin">>
    /\ call.farm_size = 4
    /\ call.result[1].pesticide = "Streptomycin"
    /\ call.result[1].cost = 120000
    /\ call.result[2].cost = 225000
    /\ call.result[3].cost = 260000

IsDetails == call.op = "get_pesticide_details"

\* C29: for every crop and substance, the dosage per hectare and the price that
\* get_pesticide_details reports equal the dosage per hectare and the price of the cost
\* calculator's catalog for that substance, whichever profile the lookup finds first.
C29_DetailsAgreeWithCatalog ==
    (IsDetails /\ call.result # EmptyDict) =>
        /\ call.pesticide_name \in DOMAIN pesticide_prices
        /\ call.result.dosage_per_hectare
               = pesticide_prices[call.pesticide_name].dosage_per_hectare
        /\ call.result.price_per_kg = pesticide_prices[call.pesticide_name].price_per_kg

IsAnalyze == call.op = "analyze_image"

\* C26: when an analyze-image request to src/main.py is answered successfully the scan
\* history holds exactly one more record than before and every record stored before is
\* unchanged; a request that fails adds no record.
C26_OneRecordPerSuccess ==
    [][(call.op = "none" /\ call'.op = "analyze_image") =>
           IF call'.status = 200
           THEN /\ Len(scans') = Len(scans) + 1
                /\ SubSeq(scans', 1, Len(scans)) = scans
           ELSE scans' = scans]_vars

IsImage(content_type) == StartsWith(Chars(content_type), Chars("image/"))

\* C28: an analyze-image request is answered with status 400 when the content type of the
\* upload is not an image's (both services) and, in src/main.py, when the crop is not a
\* supported one; no detection, recommendation or persistence step runs for it.
C28_BadRequestIs400 ==
    /\ (IsAnalyze /\ (~IsImage(call.content_type)
                         \/ call.crop_type \notin DOMAIN DISEASE_DATABASE)) =>
           /\ call.status = 400
           /\ call.steps = {}
    /\ \A r \in Requests :
           (requests[r].pc = "done" /\ ~IsImage(requests[r].content_type)) =>
               /\ requests[r].status = 400
               /\ requests[r].steps = {}

\* the requests whose upload got a path
Stored == {r \in Requests : requests[r].pc \in {"reading", "done"} /\ requests[r].file_path # <<>>}

\* C30: under any interleaving of analyze-image requests to the backend no two requests
\* store their uploads under the same path, so the image a request's detection reads and
\* the file at the image_path of its scan record are the upload of that request.
C30_UploadsKeptApart ==
    /\ \A r1, r2 \in Stored : r1 # r2 => requests[r1].file_path # requests[r2].file_path
    /\ \A r \in Requests :
           requests[r].pc = "done" /\ requests[r].steps # {} => requests[r].image_read = r
    /\ \A r \in Requests :
           requests[r].scan_id # 0 =>
               /\ crop_scans[requests[r].scan_id].image_path = requests[r].file_path
               /\ uploads[requests[r].file_path] = r

====
